---- MODULE Spec2Model ----
(***************************************************************************)
(* Model of the video analysis pipeline: VideoController.analyzeVideo and  *)
(* the services it drives (VideoDownloader, uploadToSupabase,              *)
(* TranscriberService, WhisperService, GPTService).                        *)
(*                                                                         *)
(* One action is one run-to-completion block of JavaScript: the code from  *)
(* the resumption of an await up to the next await.  The external tools    *)
(* (yt-dlp, the object store, ffmpeg, the speech and chat APIs, unlink)    *)
(* answer with a value the action draws from a small set.                  *)
(***************************************************************************)
EXTENDS Integers, Sequences, FiniteSets, TLC

VARIABLES
  pc,                \* position of each session's analyzeVideo call
  url,               \* req.body.url
  sessionId,         \* const sessionId = uuidv4()
  startTime,         \* const startTime = Date.now()
  videoPath,         \* let videoPath = null
  audioPath,         \* let audioPath = null
  supabaseVideoUrl,  \* let supabaseVideoUrl = null
  transcript,        \* const transcript
  analysis,          \* const analysis
  videoId,           \* downloadVideo: const videoId = uuidv4()
  audioId,           \* extractAudio: const audioId = uuidv4()
  fileName,          \* uploadToSupabase: const fileName
  trace,             \* per session: res.write, res.end, calls and returns, in program order
  files,             \* entries of the temp directory
  bucket,            \* the objects in the storage bucket: name and body
  nextId,            \* source of fresh uuids
  now,               \* the clock read by Date.now()
  tick,              \* what the clock advances while an await is pending
  answer,            \* per session: the tool that answered last, and whether it succeeded
  chatReply,         \* per session: what openai.chat.completions.create settled with
  temperature,       \* GPTService: this.temperature, in tenths
  gptCalls,          \* GPTService: the invocations made directly on the client, in order
  env,               \* process.env: the names that are set
  envFile,           \* the names the .env file sets
  server,            \* how far server.js has got
  stepStatus,        \* main.js: the class of each step element of the page
  loading,           \* main.js: what setLoading was last called with
  resultShown,       \* main.js: resultSection is displayed
  hooksList,         \* main.js: the items of #hooks-list
  ctasList,          \* main.js: the items of #ctas-list
  uspsList,          \* main.js: the items of #usps-list
  handled,           \* main.js: how many events the message handler has been given
  written,           \* the texts the server serialised into frames, in order
  wire,              \* the bytes written to the response and not read by the page yet
  wireEnded,         \* the response has been ended
  buffer,            \* EventSourcePolyfill.connect: let buffer
  messages,          \* the event.data values the message listener was called with
  readerDone         \* EventSourcePolyfill.connect: the read loop has left

\* the state of the GPTService client
gptVars == <<temperature, gptCalls>>

\* the state of the process start
bootVars == <<env, envFile, server>>

\* the state of the page
pageVars == <<stepStatus, loading, resultShown, hooksList, ctasList, uspsList, handled>>

\* the state of the response body and of the page's reader of it
readerVars == <<written, wire, wireEnded, buffer, messages, readerDone>>

clientVars == <<pageVars, readerVars>>

vars == <<pc, url, sessionId, startTime, videoPath, audioPath,
          supabaseVideoUrl, transcript, analysis, videoId, audioId, fileName,
          trace, files, bucket, nextId, now, tick, answer, chatReply, gptVars, bootVars, clientVars>>

(***************************************************************************)
(* Inputs                                                                  *)
(***************************************************************************)
\* the sessions in flight
Sessions == {1}

\* request bodies: url missing or empty, a recognised platform, an unknown one
Urls == {"", "https://youtu.be/abc123", "https://x.com/u/status/1", "https://example.org/clip"}

\* container chosen by the downloader for --format best[ext=mp4]/best
Exts == {"mp4", "webm"}

\* texts the speech-to-text API answers with (silence gives the empty text)
Transcripts == {"", "Stop scrolling and subscribe"}

(***************************************************************************)
(* JavaScript values                                                       *)
(***************************************************************************)
NULL == "<null>"

NoId == 0

\* variant: the identifier is derived from the clock
uuidv4FromClock(n) == now

\* uuidv4(): the n-th identifier drawn; no two draws give the same one
uuidv4(n) == n

NoData == [null |-> TRUE]

Undefined == [t |-> "undefined", s |-> <<>>]

Str(chars) == [t |-> "string", s |-> chars]

Num(chars) == [t |-> "number", s |-> chars]

NoAnalysis == [hook |-> Undefined, cta |-> Undefined, usp |-> Undefined]

\* no external tool has answered yet
NoAnswer == [tool |-> "", ok |-> FALSE]

\* tool has answered the session's call
Answer(tool, ok) == [tool |-> tool, ok |-> ok]

\* no answer of the chat API yet
NoReply == [ok |-> FALSE, parseable |-> FALSE, obj |-> NoAnalysis]

\* what the shared OpenAI client throws when a request of either API fails
OpenaiError == "429 Rate limit exceeded"

\* the configuration server.js needs: config/openai.js, config/supabase.js
EnvKeys == {"OPENAI_API_KEY", "SUPABASE_URL", "SUPABASE_SERVICE_ROLE_KEY"}

\* this.temperature = 0.7, in tenths
DefaultTemperature == 7

\* !v for the values above
Falsy(v) == v.t = "undefined" \/ (v.t = "string" /\ v.s = <<>>)

IsSpace(c) == c \in {" ", "\t", "\n"}

RECURSIVE TrimStart(_)
TrimStart(cs) ==
  IF cs # <<>> /\ IsSpace(Head(cs)) THEN TrimStart(Tail(cs)) ELSE cs

RECURSIVE TrimEnd(_)
TrimEnd(cs) ==
  IF cs # <<>> /\ IsSpace(cs[Len(cs)]) THEN TrimEnd(SubSeq(cs, 1, Len(cs) - 1)) ELSE cs

Trim(cs) == TrimEnd(TrimStart(cs))

(***************************************************************************)
(* The temp directory                                                      *)
(***************************************************************************)
TempDir == "temp"

\* path.join(this.tempDir, name)
PathOf(f) == TempDir \o "/" \o ToString(f.stem) \o "." \o f.ext

\* fs.pathExists(p)
PathExists(fs, p) == \E f \in fs : PathOf(f) = p

\* fs.remove(p)
Remove(fs, p) == {f \in fs : PathOf(f) # p}

(***************************************************************************)
(* The response stream and the call log                                    *)
(***************************************************************************)
\* res.write(`data: ${JSON.stringify(ev)}\n\n`)
Write(ev) == [op |-> "write", arg |-> ev.type, ev |-> ev]

\* res.end()
End == [op |-> "end", arg |-> ""]

Call(name) == [op |-> "call", arg |-> name]

Return(name) == [op |-> "return", arg |-> name]

\* name fails with an Error whose message is msg
Throw(name, msg) == [op |-> "throw", arg |-> name, msg |-> msg]

\* a request handed to an external tool or remote service
Extern(name) == [op |-> "extern", arg |-> name]

\* the events written to the response so far, in order
stream(s) ==
  LET ws == SelectSeq(trace[s], LAMBDA e : e.op = "write")
  IN [i \in 1..Len(ws) |-> ws[i].ev]

\* the client has gone away: the socket under res is closed
Close == [op |-> "close", arg |-> ""]

closed(s) == \E i \in 1..Len(trace[s]) : trace[s][i] = Close

\* res.writableEnded
ended(s) == \E i \in 1..Len(trace[s]) : trace[s][i].op = "end"

sendProgress(sid, step, message, data, t) ==
  [type |-> "progress", sessionId |-> sid, step |-> step, message |-> message,
   timestamp |-> t, data |-> data]

errorResponse(sid, start, msg, t) ==
  [sessionId |-> sid, success |-> FALSE, error |-> msg,
   processingTime |-> t - start, timestamp |-> t]

Steps == <<"download", "upload", "extraction", "transcription", "analysis">>

finalResult(sid, start, u, vurl, text, an, t) ==
  [sessionId |-> sid, success |-> TRUE, processingTime |-> t - start,
   videoUrl |-> vurl, transcript |-> text, analysis |-> an,
   metadata |-> [originalUrl |-> u, processedAt |-> t, steps |-> Steps]]

(***************************************************************************)
(* VideoController.analyzeVideo: the blocks between awaits                 *)
(***************************************************************************)
\* variant of the catch block: the terminal event is written before the progress event
CatchBlockTerminalFirst(sid, start, msg, t) ==
  LET resp == errorResponse(sid, start, msg, t)
  IN << Write([type |-> "error", error |-> resp]),
        Write(sendProgress(sid, "error", "Analysis failed", resp, t)),
        End >>

\* variant of the catch block: it cleans up itself, before reporting
CatchBlockCleansUp(sid, start, msg, t) ==
  LET resp == errorResponse(sid, start, msg, t)
  IN << Call("cleanup"), Return("cleanup"),
        Write(sendProgress(sid, "error", "Analysis failed", resp, t)),
        Write([type |-> "error", error |-> resp]),
        End >>

\* variant of the catch block: the terminal event carries a fixed message
CatchBlockGenericMessage(sid, start, msg, t) ==
  << Write(sendProgress(sid, "error", "Analysis failed", errorResponse(sid, start, msg, t), t)),
     Write([type |-> "error", error |-> errorResponse(sid, start, "Analysis failed", t)]),
     End >>

\* variant of the catch block: the error is reported and thrown on to the caller
CatchBlockRethrows(sid, start, msg, t) ==
  LET resp == errorResponse(sid, start, msg, t)
  IN << Write(sendProgress(sid, "error", "Analysis failed", resp, t)),
        Write([type |-> "error", error |-> resp]),
        End,
        Throw("analyzeVideo", msg) >>

\* variant of the catch block: the stream is left open after the error events
CatchBlockLeavesStreamOpen(sid, start, msg, t) ==
  LET resp == errorResponse(sid, start, msg, t)
  IN << Write(sendProgress(sid, "error", "Analysis failed", resp, t)),
        Write([type |-> "error", error |-> resp]) >>

\* catch (error) { ... }
CatchBlock(sid, start, msg, t) ==
  LET resp == errorResponse(sid, start, msg, t)
  IN << Write(sendProgress(sid, "error", "Analysis failed", resp, t)),
        Write([type |-> "error", error |-> resp]),
        End >>

\* cleanup logs 'Cleanup completed' and returns; analyzeVideo returns after it
CleanupReturn == << Return("cleanup"), Return("analyzeVideo") >>

\* controller cleanup, lines 215-219
CleanupAudioEntry(ap) ==
  IF ap # NULL THEN << Call("transcriber.cleanup") >> ELSE CleanupReturn

\* variant: the downloader is asked to clean up whatever videoPath holds
CleanupEntryUnguarded(vp, ap) ==
  << Call("cleanup"), Call("downloader.cleanup") >> \o
  (IF vp # NULL THEN << >> ELSE << Return("downloader.cleanup") >> \o CleanupAudioEntry(ap))

\* controller cleanup, lines 207-213, up to its first await
CleanupEntry(vp, ap) ==
  << Call("cleanup") >> \o
  (IF vp # NULL THEN << Call("downloader.cleanup") >> ELSE CleanupAudioEntry(ap))

AudioPc(ap) == IF ap # NULL THEN "cl_audio_exists" ELSE "done"

CleanupPc(vp, ap) == IF vp # NULL THEN "cl_video_exists" ELSE AudioPc(ap)

\* finally { await this.cleanup(...) }
FinallyBlock(vp, ap) == CleanupEntry(vp, ap)

\* variant: the failed stage is tried a second time before the session gives up
AbortAfterRetry(s, sid, start, stage, msg, vp, ap) ==
  /\ trace' = [trace EXCEPT ![s] =
                 @ \o << Throw(stage, msg), Call(stage), Throw(stage, msg) >>
                   \o CatchBlock(sid, start, msg, now) \o FinallyBlock(vp, ap)]
  /\ pc' = [pc EXCEPT ![s] = CleanupPc(vp, ap)]

\* an Error with message msg leaves stage inside the try block: catch, then finally
Abort(s, sid, start, stage, msg, vp, ap) ==
  /\ trace' = [trace EXCEPT ![s] =
                 @ \o << Throw(stage, msg) >> \o CatchBlock(sid, start, msg, now)
                   \o FinallyBlock(vp, ap)]
  /\ pc' = [pc EXCEPT ![s] = CleanupPc(vp, ap)]

\* variant: res.write on a closed stream throws into the try block
ProceedFailsOnClosedStream(s, fx, next) ==
  IF closed(s) /\ ~ended(s) /\ \E i \in 1..Len(fx) : fx[i].op = "write"
    THEN /\ trace' = [trace EXCEPT ![s] =
                        @ \o << Throw("res.write", "write after end") >>
                          \o CatchBlock(sessionId[s], startTime[s], "write after end", now)
                          \o FinallyBlock(videoPath[s], audioPath[s])]
         /\ pc' = [pc EXCEPT ![s] = CleanupPc(videoPath[s], audioPath[s])]
    ELSE /\ trace' = [trace EXCEPT ![s] = @ \o fx]
         /\ pc' = [pc EXCEPT ![s] = next]

\* the try block went on to its next await
Proceed(s, fx, next) ==
  /\ trace' = [trace EXCEPT ![s] = @ \o fx]
  /\ pc' = [pc EXCEPT ![s] = next]

\* variant of the url check: only a missing url is rejected, not an empty one
UrlMissingOnlyUndefined(u) == u = "<undefined>"

\* if (!url), line 65
UrlMissing(u) == u = ""

\* lines 63-73: validation and the call of the download stage
TryPrologue(sid, u, t) ==
  << Write(sendProgress(sid, "validation", "Validating video URL", [url |-> u], t)),
     Write(sendProgress(sid, "download", "Starting video download...", NoData, t)),
     Call("downloadVideo"), Extern("yt-dlp") >>

\* variant: upload and extraction are started together
AfterDownloadParallel(sid, path, t) ==
  << Return("downloadVideo"),
     Write(sendProgress(sid, "download", "Video downloaded successfully", [path |-> path], t)),
     Write(sendProgress(sid, "upload", "Uploading video to Supabase storage...", NoData, t)),
     Call("uploadToSupabase"), Call("extractAudio"), Extern("readFile") >>

\* lines 74-78
AfterDownload(sid, path, t) ==
  << Return("downloadVideo"),
     Write(sendProgress(sid, "download", "Video downloaded successfully", [path |-> path], t)),
     Write(sendProgress(sid, "upload", "Uploading video to Supabase storage...", NoData, t)),
     Call("uploadToSupabase"), Extern("readFile") >>

\* variant: extraction is announced only once it has been started
AfterUploadAnnouncesLate(sid, purl, t) ==
  << Return("uploadToSupabase"),
     Write(sendProgress(sid, "upload", "Video uploaded to Supabase", [url |-> purl], t)),
     Call("extractAudio"),
     Write(sendProgress(sid, "extraction", "Extracting audio from video...", NoData, t)) >>

\* lines 79-83
AfterUpload(sid, purl, t) ==
  << Return("uploadToSupabase"),
     Write(sendProgress(sid, "upload", "Video uploaded to Supabase", [url |-> purl], t)),
     Write(sendProgress(sid, "extraction", "Extracting audio from video...", NoData, t)),
     Call("extractAudio") >>

\* lines 84-88
AfterExtract(sid, path, t) ==
  << Return("extractAudio"),
     Write(sendProgress(sid, "extraction", "Audio extracted successfully", [path |-> path], t)),
     Write(sendProgress(sid, "transcription", "Transcribing audio with OpenAI Whisper...", NoData, t)),
     Call("transcribeAudio") >>

\* lines 89-96
AfterTranscribe(sid, text, t) ==
  << Return("transcribeAudio"),
     Write(sendProgress(sid, "transcription", "Audio transcribed successfully",
                        [length |-> Len(text), preview |-> text \o "..."], t)),
     Write(sendProgress(sid, "analysis", "Analyzing content with GPT-4...", NoData, t)),
     Call("analyzeContent"), Extern("gpt") >>

\* variant: the final event's result is assembled a second time, later
AfterAnalyzeReassembled(sid, start, u, vurl, text, an, t) ==
  << Return("analyzeContent"),
     Write(sendProgress(sid, "analysis", "Content analysis completed", an, t)),
     Write(sendProgress(sid, "complete", "Video analysis completed successfully",
                        finalResult(sid, start, u, vurl, text, an, t), t)),
     Write([type |-> "final", result |-> finalResult(sid, start, u, vurl, text, an, t + 1)]),
     End >>

\* lines 97-119
AfterAnalyze(sid, start, u, vurl, text, an, t) ==
  LET result == finalResult(sid, start, u, vurl, text, an, t)
  IN << Return("analyzeContent"),
        Write(sendProgress(sid, "analysis", "Content analysis completed", an, t)),
        Write(sendProgress(sid, "complete", "Video analysis completed successfully", result, t)),
        Write([type |-> "final", result |-> result]),
        End >>

(***************************************************************************)
(* Answers of the external tools                                           *)
(***************************************************************************)
\* yt-dlp: exit code, and the file it left in the temp directory ("" for none)
YtDlpResults ==
  {[code |-> 0, ext |-> e] : e \in Exts \cup {""}} \cup
  {[code |-> 1, ext |-> e] : e \in {"", "mp4.part"}}

\* ffmpeg: the event it fires, and whether it has written (part of) the output
FfmpegResults ==
  {[event |-> "end", wrote |-> TRUE],
   [event |-> "error", wrote |-> FALSE],
   [event |-> "error", wrote |-> TRUE]}

GoodField == Str(<<"H", "i">>)

BadFields == {Undefined, Str(<<>>), Str(<<" ">>), Num(<<"4", "2">>)}

GptObjects ==
  {[hook |-> GoodField, cta |-> GoodField, usp |-> GoodField]} \cup
  {[hook |-> b, cta |-> GoodField, usp |-> GoodField] : b \in BadFields} \cup
  {[hook |-> GoodField, cta |-> b, usp |-> GoodField] : b \in BadFields} \cup
  {[hook |-> GoodField, cta |-> GoodField, usp |-> b] : b \in BadFields}

\* chat completion: the call fails, or its content is not JSON, or it parses to obj
GptReplies ==
  {[ok |-> FALSE, parseable |-> FALSE, obj |-> NoAnalysis],
   [ok |-> TRUE, parseable |-> FALSE, obj |-> NoAnalysis]} \cup
  {[ok |-> TRUE, parseable |-> TRUE, obj |-> o] : o \in GptObjects}

(***************************************************************************)
(* GPTService                                                              *)
(***************************************************************************)
\* variant: the length test is made on the untrimmed string
ValidateFieldUntrimmed(an, f) ==
  IF Falsy(an[f]) \/ an[f].t # "string"
    THEN "Invalid analysis response: missing or invalid '" \o f \o "' field"
    ELSE IF Len(an[f].s) = 0
      THEN "Invalid analysis response: '" \o f \o "' field is empty"
      ELSE ""

\* variant: only the fields that are present are tested
ValidateFieldIfPresent(an, f) ==
  IF an[f] = Undefined
    THEN ""
    ELSE IF Falsy(an[f]) \/ an[f].t # "string"
      THEN "Invalid analysis response: missing or invalid '" \o f \o "' field"
      ELSE IF Len(Trim(an[f].s)) = 0
        THEN "Invalid analysis response: '" \o f \o "' field is empty"
        ELSE ""

\* the per-field test of validateAnalysisResponse; "" when the field passes
ValidateField(an, f) ==
  IF Falsy(an[f]) \/ an[f].t # "string"
    THEN "Invalid analysis response: missing or invalid '" \o f \o "' field"
    ELSE IF Len(Trim(an[f].s)) = 0
      THEN "Invalid analysis response: '" \o f \o "' field is empty"
      ELSE ""

\* variant: the loop stops before the last required field
validateAnalysisResponseSkipsUsp(an) ==
  IF ValidateField(an, "hook") # "" THEN ValidateField(an, "hook")
  ELSE ValidateField(an, "cta")

\* message of the error validateAnalysisResponse throws; "" when it returns
validateAnalysisResponse(an) ==
  IF ValidateField(an, "hook") # "" THEN ValidateField(an, "hook")
  ELSE IF ValidateField(an, "cta") # "" THEN ValidateField(an, "cta")
  ELSE ValidateField(an, "usp")

\* message of the error analyzeContent throws on reply r; "" when it returns r.obj
analyzeContentError(r) ==
  IF ~r.ok THEN OpenaiError
  ELSE IF ~r.parseable THEN "Unexpected token in JSON"
  ELSE validateAnalysisResponse(r.obj)

\* the invocations logged on one client are at most this many
MaxCalls == 3

\* temperatures a caller passes to generateAlternativeAnalysis (1.2 is its default)
AltTemperatures == {12, 15}

\* temperatures a caller passes to setConfig
ConfigTemperatures == {3}

\* the variables of the sessions
sessionVars == <<pc, url, sessionId, startTime, videoPath, audioPath,
                 supabaseVideoUrl, transcript, analysis, videoId, audioId, fileName,
                 trace, files, bucket, nextId, now, tick, answer, chatReply>>

\* the request analyzeContent builds before its await: it reads this.temperature then
ChatRequest(kind, temp, before) ==
  [kind |-> kind, sent |-> temp, before |-> before, state |-> "pending"]

pending == {i \in 1..Len(gptCalls) : gptCalls[i].state = "pending"}

\* variant: the temperature is put back after the try block, not in a finally
AfterAlternativeNoFinally(c, ok, temp) == IF ok THEN c.before ELSE temp

\* this.temperature once generateAlternativeAnalysis call c has settled:
\* finally { this.temperature = originalTemp }
AfterAlternative(c, ok, temp) == c.before

\* analyzeContent(transcript), called on the client, up to its await
AnalyzeContentCall ==
  /\ Len(gptCalls) < MaxCalls
  /\ gptCalls' = Append(gptCalls, ChatRequest("plain", temperature, temperature))
  /\ UNCHANGED temperature
  /\ UNCHANGED <<sessionVars, bootVars, clientVars>>

\* generateAlternativeAnalysis(transcript, t), up to the await inside analyzeContent
GenerateAlternativeAnalysis(t) ==
  /\ Len(gptCalls) < MaxCalls
  /\ temperature' = t
  /\ gptCalls' = Append(gptCalls, ChatRequest("alt", t, temperature))
  /\ UNCHANGED <<sessionVars, bootVars, clientVars>>

\* setConfig({temperature: t})
SetConfig(t) ==
  /\ Len(gptCalls) < MaxCalls
  /\ temperature' = t
  /\ gptCalls' = Append(gptCalls, [ChatRequest("config", t, temperature) EXCEPT !.state = "returned"])
  /\ UNCHANGED <<sessionVars, bootVars, clientVars>>

\* the chat completion of invocation i settles; an alternate call then restores
CompletionSettles(i, ok) ==
  /\ i \in pending
  /\ gptCalls' = [gptCalls EXCEPT ![i].state = IF ok THEN "returned" ELSE "threw"]
  /\ temperature' = IF gptCalls[i].kind = "alt"
                      THEN AfterAlternative(gptCalls[i], ok, temperature)
                      ELSE temperature
  /\ UNCHANGED <<sessionVars, bootVars, clientVars>>

\* invocations on the shared client may overlap at their awaits
NextGpt ==
  \/ AnalyzeContentCall
  \/ \E t \in AltTemperatures : GenerateAlternativeAnalysis(t)
  \/ \E i \in 1..MaxCalls, ok \in BOOLEAN : CompletionSettles(i, ok)

\* a caller that awaits each invocation before it makes the next
AwaitedAnalyzeContent == pending = {} /\ AnalyzeContentCall

AwaitedAlternativeAnalysis(t) == pending = {} /\ GenerateAlternativeAnalysis(t)

AwaitedSetConfig(t) == pending = {} /\ SetConfig(t)

NextGptSequential ==
  \/ AwaitedAnalyzeContent
  \/ \E t \in AltTemperatures : AwaitedAlternativeAnalysis(t)
  \/ \E t \in ConfigTemperatures : AwaitedSetConfig(t)
  \/ \E i \in 1..MaxCalls, ok \in BOOLEAN : CompletionSettles(i, ok)

(***************************************************************************)
(* uploadToSupabase                                                        *)
(***************************************************************************)
bucketName == "content"

SupabaseUrl == "https://project.supabase.co/storage/v1"

\* `${sessionId}_${Date.now()}.mp4`
ObjectName(sid, t) == ToString(sid) \o "_" \o ToString(t) \o ".mp4"

ObjectExists(b, name) == \E o \in b : o.name = name

\* variant: the upload is allowed to replace an object
UploadOptionsUpsert == [contentType |-> "video/mp4", upsert |-> TRUE]

\* the options of the upload call, lines 171-174
UploadOptions == [contentType |-> "video/mp4", upsert |-> FALSE]

\* what the object store does with an upload it has authorised
StorageUpload(b, name, body, opts) ==
  IF ObjectExists(b, name) /\ ~opts.upsert
    THEN [ok |-> FALSE, bucket |-> b, msg |-> "The resource already exists"]
    ELSE [ok |-> TRUE,
          bucket |-> {o \in b : o.name # name} \cup {[name |-> name, body |-> body]},
          msg |-> ""]

\* the store refuses the request itself
StorageRefusal(b) == [ok |-> FALSE, bucket |-> b, msg |-> "Bucket not found"]

\* supabase.storage.from(bucket).getPublicUrl(name).data.publicUrl
getPublicUrl(name) == SupabaseUrl \o "/object/public/" \o bucketName \o "/" \o name

(***************************************************************************)
(* VideoDownloader                                                         *)
(***************************************************************************)
\* p occurs in u
Contains(u, p) == \E i \in 1..(Len(u) - Len(p) + 1) : SubSeq(u, i, i + Len(p) - 1) = p

\* the regular expression a.*b matches in u
ContainsThen(u, a, b) ==
  \E i \in 1..(Len(u) - Len(a) + 1) :
    /\ SubSeq(u, i, i + Len(a) - 1) = a
    /\ Contains(SubSeq(u, i + Len(a), Len(u)), b)

isYouTubeUrl(u) ==
  \/ Contains(u, "youtube.com/watch?v=")
  \/ Contains(u, "youtu.be/")
  \/ Contains(u, "youtube.com/embed/")
  \/ Contains(u, "youtube.com/shorts/")

isInstagramUrl(u) ==
  \/ Contains(u, "instagram.com/p/")
  \/ Contains(u, "instagram.com/reel/")
  \/ Contains(u, "instagram.com/tv/")

isTwitterUrl(u) ==
  \/ ContainsThen(u, "twitter.com/", "/status/")
  \/ ContainsThen(u, "x.com/", "/status/")

isTikTokUrl(u) ==
  \/ ContainsThen(u, "tiktok.com/@", "/video/")
  \/ Contains(u, "vm.tiktok.com/")

isFacebookUrl(u) ==
  \/ ContainsThen(u, "facebook.com/", "/videos/")
  \/ Contains(u, "fb.watch/")

isLinkedInUrl(u) ==
  \/ Contains(u, "linkedin.com/posts/")
  \/ Contains(u, "linkedin.com/feed/update/")

isSnapchatUrl(u) == Contains(u, "snapchat.com/spotlight/")

detectPlatform(u) ==
  IF isYouTubeUrl(u) THEN "YouTube"
  ELSE IF isInstagramUrl(u) THEN "Instagram"
  ELSE IF isTwitterUrl(u) THEN "Twitter/X"
  ELSE IF isTikTokUrl(u) THEN "TikTok"
  ELSE IF isFacebookUrl(u) THEN "Facebook"
  ELSE IF isLinkedInUrl(u) THEN "LinkedIn"
  ELSE IF isSnapchatUrl(u) THEN "Snapchat"
  ELSE "Unknown"

\* logger.success('Video downloaded successfully', { path, platform })
LogPlatform(u) == [op |-> "log", arg |-> detectPlatform(u)]

\* variant: the first video file in the directory is taken, whoever wrote it
downloadedFileAnyVideo(fs, id) == {f \in fs : f.ext \in Exts}

\* files.find(file => file.startsWith(videoId)): the entries that match
downloadedFile(fs, id) == {f \in fs : f.stem = id}

\* variant: downloader.cleanup lets the failure of fs.remove escape, and the
\* catch of the controller's cleanup ends the cleanup there
AfterDownloaderCleanupRethrows(ok, ap) ==
  IF ok
    THEN [fx |-> << Return("downloader.cleanup") >> \o CleanupAudioEntry(ap), pc |-> AudioPc(ap)]
    ELSE [fx |-> << Throw("downloader.cleanup", "EPERM: operation not permitted") >>
                    \o CleanupReturn,
          pc |-> "done"]

\* what downloader.cleanup leaves to its caller once fs.remove has settled:
\* a failure is caught and logged inside downloader.cleanup
AfterDownloaderCleanup(ok, ap) ==
  [fx |-> << Return("downloader.cleanup") >> \o CleanupAudioEntry(ap), pc |-> AudioPc(ap)]

\* the same for transcriber.cleanup
AfterTranscriberCleanup(ok) ==
  [fx |-> << Return("transcriber.cleanup") >> \o CleanupReturn, pc |-> "done"]

RemoveOk(p) == [op |-> "removed", arg |-> p]

RemoveFailed(p) == [op |-> "remove failed", arg |-> p]

(***************************************************************************)
(* Initial state                                                           *)
(***************************************************************************)
\* no request has arrived yet for the sessions S
NoRequestYet(S) ==
  /\ pc = [s \in S |-> "idle"]
  /\ url = [s \in S |-> ""]
  /\ sessionId = [s \in S |-> NoId]
  /\ startTime = [s \in S |-> 0]
  /\ videoPath = [s \in S |-> NULL]
  /\ audioPath = [s \in S |-> NULL]
  /\ supabaseVideoUrl = [s \in S |-> NULL]
  /\ transcript = [s \in S |-> NULL]
  /\ analysis = [s \in S |-> NoAnalysis]
  /\ videoId = [s \in S |-> NoId]
  /\ audioId = [s \in S |-> NoId]
  /\ fileName = [s \in S |-> NULL]
  /\ chatReply = [s \in S |-> NoReply]
  /\ answer = [s \in S |-> NoAnswer]
  /\ trace = [s \in S |-> << >>]
  /\ files = {}
  /\ nextId = 1
  /\ now = 1

\* main.js: the client's list of step elements
steps == <<"download", "upload", "extraction", "transcription", "analysis", "complete">>

StepNames == {steps[i] : i \in 1..Len(steps)}

\* the page as loaded: no step element carries a class, nothing is displayed
PageLoaded ==
  /\ stepStatus = [st \in StepNames |-> ""]
  /\ loading = FALSE
  /\ resultShown = FALSE
  /\ hooksList = << >>
  /\ ctasList = << >>
  /\ uspsList = << >>
  /\ handled = 0

\* no request has been fetched: nothing is written, nothing is read
NoFetchYet ==
  /\ written = << >>
  /\ wire = << >>
  /\ wireEnded = FALSE
  /\ buffer = << >>
  /\ messages = << >>
  /\ readerDone = FALSE

\* nothing has been uploaded to the bucket yet
EmptyBucket == bucket = {}

\* new GPTService()
NewGptService ==
  /\ temperature = DefaultTemperature
  /\ gptCalls = << >>

\* the server is listening, with its configuration complete
Listening ==
  /\ env = EnvKeys
  /\ envFile = {}
  /\ server = "listening"

Init ==
  /\ NoRequestYet(Sessions)
  /\ EmptyBucket
  /\ PageLoaded
  /\ NoFetchYet
  /\ NewGptService
  /\ Listening
  /\ tick = 1

(***************************************************************************)
(* Actions                                                                 *)
(***************************************************************************)
\* POST /analyze arrives with body {url: u}: lines 27-73, and for a falsy url
\* the catch and finally blocks as well
AnalyzeVideo(s, u) ==
  /\ pc[s] = "idle"
  /\ server = "listening"
  /\ url' = [url EXCEPT ![s] = u]
  /\ sessionId' = [sessionId EXCEPT ![s] = uuidv4(nextId)]
  /\ startTime' = [startTime EXCEPT ![s] = now]
  /\ IF UrlMissing(u)
       THEN /\ Abort(s, uuidv4(nextId), now, "validation", "Video URL is required", NULL, NULL)
            /\ nextId' = nextId + 1
            /\ UNCHANGED videoId
       ELSE /\ Proceed(s, TryPrologue(uuidv4(nextId), u, now), "dl_exec")
            /\ videoId' = [videoId EXCEPT ![s] = uuidv4(nextId + 1)]
            /\ nextId' = nextId + 2
  /\ now' = now + tick
  /\ UNCHANGED <<tick, gptVars, bootVars, clientVars>>
  /\ UNCHANGED <<answer, chatReply, videoPath, audioPath, supabaseVideoUrl, transcript, analysis,
                 audioId, fileName, files, bucket>>

\* variant: a non-zero exit counts as a failure only when no file was left
YtDlpExitIgnoresCode(s, r) ==
  /\ pc[s] = "dl_exec"
  /\ answer' = [answer EXCEPT ![s] = Answer("yt-dlp", r.code = 0)]
  /\ files' = IF r.ext # "" THEN files \cup {[stem |-> videoId[s], ext |-> r.ext]} ELSE files
  /\ IF r.code # 0 /\ r.ext = ""
       THEN Abort(s, sessionId[s], startTime[s], "downloadVideo",
                  "Failed to download video: yt-dlp exited with code 1",
                  videoPath[s], audioPath[s])
       ELSE Proceed(s, << Extern("readdir") >>, "dl_readdir")
  /\ now' = now + tick
  /\ UNCHANGED <<tick, gptVars, bootVars, clientVars>>
  /\ UNCHANGED <<chatReply, url, sessionId, startTime, videoPath, audioPath, supabaseVideoUrl,
                 transcript, analysis, videoId, audioId, fileName, bucket, nextId>>

\* this.ytDlp.execPromise settles: downloader.js lines 53-63, or 78-81
YtDlpExit(s, r) ==
  /\ pc[s] = "dl_exec"
  /\ answer' = [answer EXCEPT ![s] = Answer("yt-dlp", r.code = 0)]
  /\ files' = IF r.ext # "" THEN files \cup {[stem |-> videoId[s], ext |-> r.ext]} ELSE files
  /\ IF r.code # 0
       THEN Abort(s, sessionId[s], startTime[s], "downloadVideo",
                  "Failed to download video: yt-dlp exited with code 1",
                  videoPath[s], audioPath[s])
       ELSE Proceed(s, << Extern("readdir") >>, "dl_readdir")
  /\ now' = now + tick
  /\ UNCHANGED <<tick, gptVars, bootVars, clientVars>>
  /\ UNCHANGED <<chatReply, url, sessionId, startTime, videoPath, audioPath, supabaseVideoUrl,
                 transcript, analysis, videoId, audioId, fileName, bucket, nextId>>

\* variant: a url of no known platform is given up after the download
ReaddirRejectsUnknown(s) ==
  /\ pc[s] = "dl_readdir"
  /\ IF downloadedFile(files, videoId[s]) = {} \/ detectPlatform(url[s]) = "Unknown"
       THEN /\ Abort(s, sessionId[s], startTime[s], "downloadVideo",
                     "Failed to download video: Downloaded file not found",
                     videoPath[s], audioPath[s])
            /\ UNCHANGED videoPath
       ELSE LET path == PathOf(CHOOSE f \in downloadedFile(files, videoId[s]) : TRUE)
            IN /\ videoPath' = [videoPath EXCEPT ![s] = path]
               /\ Proceed(s, << LogPlatform(url[s]) >> \o AfterDownload(sessionId[s], path, now),
                          "up_read")
  /\ now' = now + tick
  /\ UNCHANGED <<tick, gptVars, bootVars, clientVars>>
  /\ UNCHANGED <<answer, chatReply, url, sessionId, startTime, audioPath, supabaseVideoUrl, transcript,
                 analysis, videoId, audioId, fileName, files, bucket, nextId>>

\* fs.readdir settles: downloader.js lines 63-76, then controller lines 73-78
Readdir(s) ==
  /\ pc[s] = "dl_readdir"
  /\ IF downloadedFile(files, videoId[s]) = {}
       THEN /\ Abort(s, sessionId[s], startTime[s], "downloadVideo",
                     "Failed to download video: Downloaded file not found",
                     videoPath[s], audioPath[s])
            /\ UNCHANGED videoPath
       ELSE LET path == PathOf(CHOOSE f \in downloadedFile(files, videoId[s]) : TRUE)
            IN /\ videoPath' = [videoPath EXCEPT ![s] = path]
               /\ Proceed(s, << LogPlatform(url[s]) >> \o AfterDownload(sessionId[s], path, now),
                          "up_read")
  /\ now' = now + tick
  /\ UNCHANGED <<tick, gptVars, bootVars, clientVars>>
  /\ UNCHANGED <<answer, chatReply, url, sessionId, startTime, audioPath, supabaseVideoUrl, transcript,
                 analysis, videoId, audioId, fileName, files, bucket, nextId>>

\* fs.readFile(videoPath) settles: controller lines 159-174
ReadFile(s) ==
  /\ pc[s] = "up_read"
  /\ IF PathExists(files, videoPath[s])
       THEN /\ fileName' = [fileName EXCEPT ![s] = ObjectName(sessionId[s], now)]
            /\ Proceed(s, << Extern("storage.upload") >>, "up_put")
       ELSE /\ Abort(s, sessionId[s], startTime[s], "uploadToSupabase",
                     "ENOENT: no such file or directory", videoPath[s], audioPath[s])
            /\ UNCHANGED fileName
  /\ now' = now + tick
  /\ UNCHANGED <<tick, gptVars, bootVars, clientVars>>
  /\ UNCHANGED <<answer, chatReply, url, sessionId, startTime, videoPath, audioPath, supabaseVideoUrl,
                 transcript, analysis, videoId, audioId, files, bucket, nextId>>

\* the object store answers the upload (upsert: false): controller lines 169-193,
\* then lines 78-83 up to fs.pathExists in extractAudio
UploadReply(s, accept) ==
  /\ pc[s] = "up_put"
  /\ LET res == IF accept
                  THEN StorageUpload(bucket, fileName[s], videoPath[s], UploadOptions)
                  ELSE StorageRefusal(bucket)
     IN /\ answer' = [answer EXCEPT ![s] = Answer("storage.upload", res.ok)]
        /\ bucket' = res.bucket
        /\ IF res.ok
             THEN /\ supabaseVideoUrl' =
                       [supabaseVideoUrl EXCEPT ![s] = getPublicUrl(fileName[s])]
                  /\ Proceed(s, AfterUpload(sessionId[s], getPublicUrl(fileName[s]), now),
                             "ex_exists")
             ELSE /\ Abort(s, sessionId[s], startTime[s], "uploadToSupabase",
                           "Supabase upload failed: " \o res.msg, videoPath[s], audioPath[s])
                  /\ UNCHANGED supabaseVideoUrl
  /\ now' = now + tick
  /\ UNCHANGED <<tick, gptVars, bootVars, clientVars>>
  /\ UNCHANGED <<chatReply, url, sessionId, startTime, videoPath, audioPath, transcript, analysis,
                 videoId, audioId, fileName, files, nextId>>

\* variant: the transcoder is started without looking for the input file
ExtractPathExistsUnchecked(s) ==
  /\ pc[s] = "ex_exists"
  /\ IF TRUE
       THEN /\ audioId' = [audioId EXCEPT ![s] = uuidv4(nextId)]
            /\ nextId' = nextId + 1
            /\ Proceed(s, << Extern("ffmpeg") >>, "ex_ffmpeg")
       ELSE /\ Abort(s, sessionId[s], startTime[s], "extractAudio",
                     "Video file not found: " \o videoPath[s], videoPath[s], audioPath[s])
            /\ UNCHANGED <<audioId, nextId>>
  /\ now' = now + tick
  /\ UNCHANGED <<tick, gptVars, bootVars, clientVars>>
  /\ UNCHANGED <<answer, chatReply, url, sessionId, startTime, videoPath, audioPath, supabaseVideoUrl,
                 transcript, analysis, videoId, fileName, files, bucket>>

\* fs.pathExists(videoPath) settles in extractAudio: transcriber.js lines 39-78
ExtractPathExists(s) ==
  /\ pc[s] = "ex_exists"
  /\ IF PathExists(files, videoPath[s])
       THEN /\ audioId' = [audioId EXCEPT ![s] = uuidv4(nextId)]
            /\ nextId' = nextId + 1
            /\ Proceed(s, << Extern("ffmpeg") >>, "ex_ffmpeg")
       ELSE /\ Abort(s, sessionId[s], startTime[s], "extractAudio",
                     "Video file not found: " \o videoPath[s], videoPath[s], audioPath[s])
            /\ UNCHANGED <<audioId, nextId>>
  /\ now' = now + tick
  /\ UNCHANGED <<tick, gptVars, bootVars, clientVars>>
  /\ UNCHANGED <<answer, chatReply, url, sessionId, startTime, videoPath, audioPath, supabaseVideoUrl,
                 transcript, analysis, videoId, fileName, files, bucket>>

\* variant: the controller learns the audio path although the conversion failed
FfmpegEventPathKnownEarly(s, r) ==
  /\ pc[s] = "ex_ffmpeg"
  /\ answer' = [answer EXCEPT ![s] = Answer("ffmpeg", r.event = "end")]
  /\ files' = IF r.wrote THEN files \cup {[stem |-> audioId[s], ext |-> "wav"]} ELSE files
  /\ IF r.event = "end"
       THEN LET path == PathOf([stem |-> audioId[s], ext |-> "wav"])
            IN /\ audioPath' = [audioPath EXCEPT ![s] = path]
               /\ Proceed(s, AfterExtract(sessionId[s], path, now), "tr_exists")
       ELSE /\ Abort(s, sessionId[s], startTime[s], "extractAudio",
                     "ffmpeg exited with code 1", videoPath[s], audioPath[s])
            /\ audioPath' = [audioPath EXCEPT ![s] = PathOf([stem |-> audioId[s], ext |-> "wav"])]
  /\ now' = now + tick
  /\ UNCHANGED <<tick, gptVars, bootVars, clientVars>>
  /\ UNCHANGED <<chatReply, url, sessionId, startTime, videoPath, supabaseVideoUrl, transcript,
                 analysis, videoId, audioId, fileName, bucket, nextId>>

\* ffmpeg fires 'end' or 'error': transcriber.js lines 66-77, then controller
\* lines 83-88 up to fs.pathExists in transcribeAudio
FfmpegEvent(s, r) ==
  /\ pc[s] = "ex_ffmpeg"
  /\ answer' = [answer EXCEPT ![s] = Answer("ffmpeg", r.event = "end")]
  /\ files' = IF r.wrote THEN files \cup {[stem |-> audioId[s], ext |-> "wav"]} ELSE files
  /\ IF r.event = "end"
       THEN LET path == PathOf([stem |-> audioId[s], ext |-> "wav"])
            IN /\ audioPath' = [audioPath EXCEPT ![s] = path]
               /\ Proceed(s, AfterExtract(sessionId[s], path, now), "tr_exists")
       ELSE /\ Abort(s, sessionId[s], startTime[s], "extractAudio",
                     "ffmpeg exited with code 1", videoPath[s], audioPath[s])
            /\ UNCHANGED audioPath
  /\ now' = now + tick
  /\ UNCHANGED <<tick, gptVars, bootVars, clientVars>>
  /\ UNCHANGED <<chatReply, url, sessionId, startTime, videoPath, supabaseVideoUrl, transcript,
                 analysis, videoId, audioId, fileName, bucket, nextId>>

\* fs.pathExists(audioPath) settles in transcribeAudio: part_003 lines 27-32
TranscribePathExists(s) ==
  /\ pc[s] = "tr_exists"
  /\ IF PathExists(files, audioPath[s])
       THEN Proceed(s, << Extern("stat") >>, "tr_stat")
       ELSE Abort(s, sessionId[s], startTime[s], "transcribeAudio",
                  "Audio file not found: " \o audioPath[s], videoPath[s], audioPath[s])
  /\ now' = now + tick
  /\ UNCHANGED <<tick, gptVars, bootVars, clientVars>>
  /\ UNCHANGED <<answer, chatReply, url, sessionId, startTime, videoPath, audioPath, supabaseVideoUrl,
                 transcript, analysis, videoId, audioId, fileName, files, bucket, nextId>>

\* fs.stat(audioPath) settles: part_003 lines 32-54
TranscribeStat(s) ==
  /\ pc[s] = "tr_stat"
  /\ IF PathExists(files, audioPath[s])
       THEN Proceed(s, << Extern("whisper") >>, "tr_api")
       ELSE Abort(s, sessionId[s], startTime[s], "transcribeAudio",
                  "ENOENT: no such file or directory", videoPath[s], audioPath[s])
  /\ now' = now + tick
  /\ UNCHANGED <<tick, gptVars, bootVars, clientVars>>
  /\ UNCHANGED <<answer, chatReply, url, sessionId, startTime, videoPath, audioPath, supabaseVideoUrl,
                 transcript, analysis, videoId, audioId, fileName, files, bucket, nextId>>

\* variant: a rejected request is sent a second time
WhisperReplyRetries(s, ok, text) ==
  /\ pc[s] = "tr_api"
  /\ answer' = [answer EXCEPT ![s] = Answer("whisper", ok)]
  /\ IF ok
       THEN /\ transcript' = [transcript EXCEPT ![s] = text]
            /\ Proceed(s, AfterTranscribe(sessionId[s], text, now), "an_api")
       ELSE /\ IF Cardinality({i \in 1..Len(trace[s]) : trace[s][i] = Extern("whisper")}) < 2
                 THEN Proceed(s, << Extern("whisper") >>, "tr_api")
                 ELSE Abort(s, sessionId[s], startTime[s], "transcribeAudio",
                            OpenaiError, videoPath[s], audioPath[s])
            /\ UNCHANGED transcript
  /\ now' = now + tick
  /\ UNCHANGED <<tick, gptVars, bootVars, clientVars>>
  /\ UNCHANGED <<chatReply, url, sessionId, startTime, videoPath, audioPath, supabaseVideoUrl,
                 analysis, videoId, audioId, fileName, files, bucket, nextId>>

\* the speech-to-text API answers: part_003 lines 54-76, then controller lines
\* 88-96 and gpt.js lines 18-34
WhisperReply(s, ok, text) ==
  /\ pc[s] = "tr_api"
  /\ answer' = [answer EXCEPT ![s] = Answer("whisper", ok)]
  /\ IF ok
       THEN /\ transcript' = [transcript EXCEPT ![s] = text]
            /\ Proceed(s, AfterTranscribe(sessionId[s], text, now), "an_api")
       ELSE /\ Abort(s, sessionId[s], startTime[s], "transcribeAudio",
                     OpenaiError, videoPath[s], audioPath[s])
            /\ UNCHANGED transcript
  /\ now' = now + tick
  /\ UNCHANGED <<tick, gptVars, bootVars, clientVars>>
  /\ UNCHANGED <<chatReply, url, sessionId, startTime, videoPath, audioPath, supabaseVideoUrl,
                 analysis, videoId, audioId, fileName, files, bucket, nextId>>

\* the chat API answers: gpt.js lines 34-84, then controller lines 96-119 and
\* the finally block
GptReply(s, r) ==
  /\ pc[s] = "an_api"
  /\ chatReply' = [chatReply EXCEPT ![s] = r]
  /\ answer' = [answer EXCEPT ![s] = Answer("chat", r.ok)]
  /\ IF analyzeContentError(r) = ""
       THEN /\ analysis' = [analysis EXCEPT ![s] = r.obj]
            /\ Proceed(s, AfterAnalyze(sessionId[s], startTime[s], url[s], supabaseVideoUrl[s],
                                       transcript[s], r.obj, now)
                          \o FinallyBlock(videoPath[s], audioPath[s]),
                       CleanupPc(videoPath[s], audioPath[s]))
       ELSE /\ Abort(s, sessionId[s], startTime[s], "analyzeContent",
                     analyzeContentError(r), videoPath[s], audioPath[s])
            /\ UNCHANGED analysis
  /\ now' = now + tick
  /\ UNCHANGED <<tick, gptVars, bootVars, clientVars>>
  /\ UNCHANGED <<url, sessionId, startTime, videoPath, audioPath, supabaseVideoUrl,
                 transcript, videoId, audioId, fileName, files, bucket, nextId>>

\* fs.pathExists(filePath) settles in downloader.cleanup: downloader.js lines 174-175
DownloaderCleanupExists(s) ==
  /\ pc[s] = "cl_video_exists"
  /\ IF PathExists(files, videoPath[s])
       THEN Proceed(s, << Extern("remove") >>, "cl_video_remove")
       ELSE Proceed(s, AfterDownloaderCleanup(TRUE, audioPath[s]).fx,
                    AfterDownloaderCleanup(TRUE, audioPath[s]).pc)
  /\ now' = now + tick
  /\ UNCHANGED <<tick, gptVars, bootVars, clientVars>>
  /\ UNCHANGED <<answer, chatReply, url, sessionId, startTime, videoPath, audioPath, supabaseVideoUrl,
                 transcript, analysis, videoId, audioId, fileName, files, bucket, nextId>>

\* fs.remove(filePath) settles in downloader.cleanup: downloader.js lines 175-180,
\* then controller lines 215-222
DownloaderCleanupRemove(s, ok) ==
  /\ pc[s] = "cl_video_remove"
  /\ files' = IF ok THEN Remove(files, videoPath[s]) ELSE files
  /\ Proceed(s, << IF ok THEN RemoveOk(videoPath[s]) ELSE RemoveFailed(videoPath[s]) >>
                \o AfterDownloaderCleanup(ok, audioPath[s]).fx,
             AfterDownloaderCleanup(ok, audioPath[s]).pc)
  /\ now' = now + tick
  /\ UNCHANGED <<tick, gptVars, bootVars, clientVars>>
  /\ UNCHANGED <<answer, chatReply, url, sessionId, startTime, videoPath, audioPath, supabaseVideoUrl,
                 transcript, analysis, videoId, audioId, fileName, bucket, nextId>>

\* fs.pathExists(audioPath) settles in transcriber.cleanup: transcriber.js lines 133-134
TranscriberCleanupExists(s) ==
  /\ pc[s] = "cl_audio_exists"
  /\ IF PathExists(files, audioPath[s])
       THEN Proceed(s, << Extern("remove") >>, "cl_audio_remove")
       ELSE Proceed(s, AfterTranscriberCleanup(TRUE).fx, AfterTranscriberCleanup(TRUE).pc)
  /\ now' = now + tick
  /\ UNCHANGED <<tick, gptVars, bootVars, clientVars>>
  /\ UNCHANGED <<answer, chatReply, url, sessionId, startTime, videoPath, audioPath, supabaseVideoUrl,
                 transcript, analysis, videoId, audioId, fileName, files, bucket, nextId>>

\* fs.remove(audioPath) settles in transcriber.cleanup: transcriber.js lines 134-139,
\* then controller lines 219-222
TranscriberCleanupRemove(s, ok) ==
  /\ pc[s] = "cl_audio_remove"
  /\ files' = IF ok THEN Remove(files, audioPath[s]) ELSE files
  /\ Proceed(s, << IF ok THEN RemoveOk(audioPath[s]) ELSE RemoveFailed(audioPath[s]) >>
                \o AfterTranscriberCleanup(ok).fx,
             AfterTranscriberCleanup(ok).pc)
  /\ now' = now + tick
  /\ UNCHANGED <<tick, gptVars, bootVars, clientVars>>
  /\ UNCHANGED <<answer, chatReply, url, sessionId, startTime, videoPath, audioPath, supabaseVideoUrl,
                 transcript, analysis, videoId, audioId, fileName, bucket, nextId>>

\* the client drops the connection while the session is still reporting: nothing
\* in analyzeVideo listens for it, and res.write on the closed socket returns false
ClientDisconnect(s) ==
  /\ pc[s] \notin {"idle", "done"}
  /\ ~ended(s)
  /\ ~closed(s)
  /\ trace' = [trace EXCEPT ![s] = @ \o << Close >>]
  /\ UNCHANGED <<tick, gptVars, bootVars, clientVars>>
  /\ UNCHANGED <<answer, chatReply, url, sessionId, startTime, videoPath, audioPath, supabaseVideoUrl,
                 transcript, analysis, videoId, audioId, fileName, files, bucket, nextId,
                 pc, now>>

\* a pending await of session s settles and its continuation runs
Settle(s) ==
  \/ \E r \in YtDlpResults : YtDlpExit(s, r)
  \/ Readdir(s)
  \/ ReadFile(s)
  \/ \E accept \in BOOLEAN : UploadReply(s, accept)
  \/ ExtractPathExists(s)
  \/ \E r \in FfmpegResults : FfmpegEvent(s, r)
  \/ TranscribePathExists(s)
  \/ TranscribeStat(s)
  \/ \E ok \in BOOLEAN, text \in Transcripts : WhisperReply(s, ok, text)
  \/ \E r \in GptReplies : GptReply(s, r)
  \/ DownloaderCleanupExists(s)
  \/ \E ok \in BOOLEAN : DownloaderCleanupRemove(s, ok)
  \/ TranscriberCleanupExists(s)
  \/ \E ok \in BOOLEAN : TranscriberCleanupRemove(s, ok)

Next ==
  \E s \in Sessions :
    \/ \E u \in Urls : AnalyzeVideo(s, u)
    \/ ClientDisconnect(s)
    \/ Settle(s)

Spec == Init /\ [][Next]_vars

(***************************************************************************)
(* Process start: server.js                                                *)
(***************************************************************************)
\* the process is started with some variables set and some in the .env file
ProcessStart ==
  /\ env \in SUBSET EnvKeys
  /\ envFile \in SUBSET EnvKeys
  /\ server = "start"

\* config/openai.js: if (!process.env.OPENAI_API_KEY) throw
OpenaiConfigured(e) == "OPENAI_API_KEY" \in e

\* variant: the module gives up only when both settings are missing
SupabaseConfiguredEither(e) == "SUPABASE_URL" \in e \/ "SUPABASE_SERVICE_ROLE_KEY" \in e

\* config/supabase.js: if (!supabaseUrl || !supabaseKey) throw
SupabaseConfigured(e) == "SUPABASE_URL" \in e /\ "SUPABASE_SERVICE_ROLE_KEY" \in e

\* require('dotenv').config(): the file sets what the process does not have yet
LoadDotenv ==
  /\ server = "start"
  /\ env' = env \cup envFile
  /\ server' = "dotenv"
  /\ UNCHANGED <<envFile, sessionVars, gptVars, clientVars>>

\* require('./app') reaches services/whisper.js, which loads config/openai.js
RequireOpenai ==
  /\ server = "dotenv"
  /\ server' = IF OpenaiConfigured(env) THEN "openai" ELSE "crashed"
  /\ UNCHANGED <<env, envFile, sessionVars, gptVars, clientVars>>

\* the controller module then loads config/supabase.js
RequireSupabase ==
  /\ server = "openai"
  /\ server' = IF SupabaseConfigured(env) THEN "supabase" ELSE "crashed"
  /\ UNCHANGED <<env, envFile, sessionVars, gptVars, clientVars>>

\* new App(), app.listen(PORT)
Listen ==
  /\ server = "supabase"
  /\ server' = "listening"
  /\ UNCHANGED <<env, envFile, sessionVars, gptVars, clientVars>>

InitBoot ==
  /\ NoRequestYet(Sessions)
  /\ EmptyBucket
  /\ PageLoaded
  /\ NoFetchYet
  /\ NewGptService
  /\ ProcessStart
  /\ tick = 1

\* the start of the process, and the requests the server accepts once it listens
NextBoot ==
  \/ LoadDotenv
  \/ RequireOpenai
  \/ RequireSupabase
  \/ Listen
  \/ \E s \in Sessions, u \in Urls : AnalyzeVideo(s, u)

SpecBoot == InitBoot /\ [][NextBoot]_vars

(***************************************************************************)
(* Two requests served at the same time                                    *)
(***************************************************************************)
Slots == {1, 2}

\* the answers of the external tools kept for two sessions: for each call one
\* success and one failure that leaves a file behind
YtDlpPair == {[code |-> 0, ext |-> "mp4"], [code |-> 1, ext |-> "mp4.part"]}

FfmpegPair == {[event |-> "end", wrote |-> TRUE], [event |-> "error", wrote |-> TRUE]}

GptPair == {NoReply, [ok |-> TRUE, parseable |-> TRUE,
                      obj |-> [hook |-> GoodField, cta |-> GoodField, usp |-> GoodField]]}

\* both requests read the same clock value: the sessions run within one millisecond
InitTwo ==
  /\ NoRequestYet(Slots)
  /\ EmptyBucket
  /\ PageLoaded
  /\ NoFetchYet
  /\ NewGptService
  /\ Listening
  /\ tick = 0

NextTwo ==
  \E s \in Slots :
    \/ AnalyzeVideo(s, "https://youtu.be/abc123")
    \/ \E r \in YtDlpPair : YtDlpExit(s, r)
    \/ Readdir(s)
    \/ ReadFile(s)
    \/ UploadReply(s, TRUE)
    \/ ExtractPathExists(s)
    \/ \E r \in FfmpegPair : FfmpegEvent(s, r)
    \/ TranscribePathExists(s)
    \/ TranscribeStat(s)
    \/ \E ok \in BOOLEAN : WhisperReply(s, ok, "Stop scrolling and subscribe")
    \/ \E r \in GptPair : GptReply(s, r)
    \/ DownloaderCleanupExists(s)
    \/ \E ok \in BOOLEAN : DownloaderCleanupRemove(s, ok)
    \/ TranscriberCleanupExists(s)
    \/ \E ok \in BOOLEAN : TranscriberCleanupRemove(s, ok)

SpecTwo == InitTwo /\ [][NextTwo]_vars

(***************************************************************************)
(* The temp directory is not the service's alone                           *)
(***************************************************************************)
\* a file of the temp directory is removed from outside the service
FileVanishes ==
  /\ \E f \in files : files' = files \ {f}
  /\ UNCHANGED <<pc, url, sessionId, startTime, videoPath, audioPath, supabaseVideoUrl,
                 transcript, analysis, videoId, audioId, fileName, trace, bucket, nextId,
                 now, tick, answer, chatReply, gptVars, bootVars, clientVars>>

NextVanishing ==
  \/ Next
  \/ FileVanishes

SpecVanishing == Init /\ [][NextVanishing]_vars

(***************************************************************************)
(* A bucket that already holds objects                                     *)
(***************************************************************************)
\* the latest clock value in the name of an object stored earlier
MaxStamp == 4

\* the bucket holds nothing, or one object uploaded earlier under some name
InitStored ==
  /\ NoRequestYet(Sessions)
  /\ bucket \in {{}} \cup
       {{[name |-> ObjectName(sid, t), body |-> "temp/0.mp4"]} : sid \in Sessions, t \in 1..MaxStamp}
  /\ PageLoaded
  /\ NoFetchYet
  /\ NewGptService
  /\ Listening
  /\ tick = 1

SpecStored == InitStored /\ [][Next]_vars

(***************************************************************************)
(* The response body and the page's reader of it                           *)
(***************************************************************************)
\* the texts of the strings the server serialises: plain, with a character
\* outside ASCII, with line breaks
\* "<E9>" stands for the character U+00E9, two bytes in UTF-8
Texts == {<<"o", "k">>, <<"<E9>">>, <<"\n", "\n">>}

\* the frames written to one response are at most this many
MaxFrames == 2

\* the character a decoder puts in place of a malformed sequence (U+FFFD)
Replacement == "<FFFD>"

\* JSON.stringify of a string: quoted, a line break written as backslash n,
\* characters outside ASCII left as they are
RECURSIVE Escape(_)
Escape(cs) ==
  IF cs = << >> THEN << >>
  ELSE (IF Head(cs) = "\n" THEN <<"\\", "n">> ELSE <<Head(cs)>>) \o Escape(Tail(cs))

JSONstringify(cs) == <<"\"">> \o Escape(cs) \o <<"\"">>

\* `data: ${text}\n\n`
Frame(text) == <<"d", "a", "t", "a", ":", " ">> \o text \o <<"\n", "\n">>

\* the bytes res.write puts on the socket for a string: UTF-8
RECURSIVE utf8(_)
utf8(cs) ==
  IF cs = << >> THEN << >>
  ELSE (IF Head(cs) = "<E9>" THEN <<"C3", "A9">> ELSE <<Head(cs)>>) \o utf8(Tail(cs))

\* new TextDecoder().decode(value): each chunk is decoded on its own, a
\* sequence cut by the end of the chunk is malformed
RECURSIVE decode(_)
decode(bs) ==
  IF bs = << >> THEN << >>
  ELSE IF Head(bs) = "C3"
    THEN IF Len(bs) >= 2 /\ bs[2] = "A9"
           THEN <<"<E9>">> \o decode(SubSeq(bs, 3, Len(bs)))
           ELSE <<Replacement>> \o decode(Tail(bs))
  ELSE IF Head(bs) = "A9" THEN <<Replacement>> \o decode(Tail(bs))
  ELSE <<Head(bs)>> \o decode(Tail(bs))

\* buffer.split(/\n\n/): the pieces between the blank lines, the last one included
RECURSIVE split(_, _)
split(cs, piece) ==
  IF cs = << >> THEN << piece >>
  ELSE IF Len(cs) >= 2 /\ cs[1] = "\n" /\ cs[2] = "\n"
    THEN << piece >> \o split(SubSeq(cs, 3, Len(cs)), << >>)
  ELSE split(Tail(cs), Append(piece, Head(cs)))

\* line.replace(/^data: /, '')
stripData(line) ==
  IF Len(line) >= 6 /\ SubSeq(line, 1, 6) = <<"d", "a", "t", "a", ":", " ">>
    THEN SubSeq(line, 7, Len(line))
    ELSE line

\* res.write(`data: ${JSON.stringify(progressData)}\n\n`)
ServerWrite(text) ==
  /\ ~wireEnded
  /\ Len(written) < MaxFrames
  /\ written' = Append(written, JSONstringify(text))
  /\ wire' = wire \o utf8(Frame(JSONstringify(text)))
  /\ UNCHANGED <<wireEnded, buffer, messages, readerDone>>
  /\ UNCHANGED <<sessionVars, gptVars, bootVars, pageVars>>

\* res.end()
ServerEnd ==
  /\ ~wireEnded
  /\ wireEnded' = TRUE
  /\ UNCHANGED <<written, wire, buffer, messages, readerDone>>
  /\ UNCHANGED <<sessionVars, gptVars, bootVars, pageVars>>

\* one turn of the read loop: reader.read() gives the next n bytes
ReaderRead(n) ==
  /\ ~readerDone
  /\ n \in 1..Len(wire)
  /\ LET lines == split(buffer \o decode(SubSeq(wire, 1, n)), << >>)
     IN /\ buffer' = lines[Len(lines)]
        /\ messages' = messages \o [i \in 1..(Len(lines) - 1) |-> stripData(lines[i])]
  /\ wire' = SubSeq(wire, n + 1, Len(wire))
  /\ UNCHANGED <<written, wireEnded, readerDone>>
  /\ UNCHANGED <<sessionVars, gptVars, bootVars, pageVars>>

\* reader.read() gives done: the loop is left
ReaderEnd ==
  /\ ~readerDone
  /\ wireEnded
  /\ wire = << >>
  /\ readerDone' = TRUE
  /\ UNCHANGED <<written, wire, wireEnded, buffer, messages>>
  /\ UNCHANGED <<sessionVars, gptVars, bootVars, pageVars>>

\* the network cuts the body into chunks wherever it likes
ChunkSizes == 1..(MaxFrames * 12)

NextReader ==
  \/ \E text \in Texts : ServerWrite(text)
  \/ ServerEnd
  \/ \E n \in ChunkSizes : ReaderRead(n)
  \/ ReaderEnd

SpecReader == Init /\ [][NextReader]_vars

(***************************************************************************)
(* The page: main.js                                                       *)
(***************************************************************************)
\* the submit handler sends a request only for a url that is not blank
PageUrls == {u \in Urls : u # ""}

\* the submit handler has run: setLoading(true), resetSteps(), results hidden
FormSubmitted ==
  /\ stepStatus = [st \in StepNames |-> ""]
  /\ loading = TRUE
  /\ resultShown = FALSE
  /\ hooksList = << >>
  /\ ctasList = << >>
  /\ uspsList = << >>
  /\ handled = 0

\* steps.indexOf(step), counted from 1; 0 when step is not in the list
indexOf(step) ==
  IF step \in StepNames THEN CHOOSE i \in 1..Len(steps) : steps[i] = step ELSE 0

\* the classes of the step elements once handleStepProgress(step, type) has run
handleStepProgress(step, type) ==
  LET idx == indexOf(step)
      each == [st \in StepNames |->
                 IF indexOf(st) < idx THEN "done"
                 ELSE IF indexOf(st) = idx
                   THEN (IF type = "error" THEN "error" ELSE "processing")
                 ELSE ""]
  IN IF step = "complete" /\ type # "error"
       THEN [each EXCEPT !["complete"] = "done"]
       ELSE each

\* obj[f] of JavaScript: undefined for a property the object does not have
Prop(obj, f) == IF f \in DOMAIN obj THEN obj[f] ELSE Undefined

\* a || b
Or(a, b) == IF Falsy(a) THEN b ELSE a

EmptyArray == [t |-> "array", s |-> << >>]

\* an element of a list of the page: a value of the analysis, or the placeholder
Item(chars) == [item |-> chars]

Placeholder(text) == [placeholder |-> text]

\* populateHooks, populateCTAs, populateUSPs: the items shown for a list
populateList(items, none) ==
  IF Falsy(items) \/ Len(items.s) = 0
    THEN << Placeholder(none) >>
    ELSE [i \in 1..Len(items.s) |-> Item(items.s[i].s)]

\* the message listener is called with the next event of the response
OnMessage(s) ==
  /\ handled < Len(stream(s))
  /\ LET data == stream(s)[handled + 1]
         hasStep == "step" \in DOMAIN data
         final == data.type = "final"
         failed == data.type = "error"
     IN /\ stepStatus' =
             IF final THEN handleStepProgress("complete", "done")
             ELSE IF failed
               THEN handleStepProgress(IF hasStep THEN data.step ELSE "complete", "error")
             ELSE IF hasStep
               THEN handleStepProgress(data.step,
                                       IF data.step = "error" THEN "error" ELSE "processing")
             ELSE stepStatus
        /\ loading' = IF final \/ failed THEN FALSE ELSE loading
        /\ resultShown' = (resultShown \/ final)
        /\ IF final
             THEN LET an == data.result.analysis
                  IN /\ hooksList' = populateList(Or(Prop(an, "hooks"), EmptyArray),
                                                  "No hooks generated")
                     /\ ctasList' = populateList(Or(Or(Prop(an, "ctas"), Prop(an, "CTAs")),
                                                    EmptyArray),
                                                 "No CTAs generated")
                     /\ uspsList' = populateList(Or(Or(Prop(an, "usps"), Prop(an, "USPs")),
                                                    EmptyArray),
                                                 "No USPs generated")
             ELSE UNCHANGED <<hooksList, ctasList, uspsList>>
  /\ handled' = handled + 1
  /\ UNCHANGED <<sessionVars, gptVars, bootVars, readerVars>>

InitPage ==
  /\ NoRequestYet(Sessions)
  /\ EmptyBucket
  /\ FormSubmitted
  /\ NoFetchYet
  /\ NewGptService
  /\ Listening
  /\ tick = 1

\* the session the page has requested, and the page's handling of its events
NextPage ==
  \E s \in Sessions :
    \/ \E u \in PageUrls : AnalyzeVideo(s, u)
    \/ Settle(s)
    \/ OnMessage(s)

SpecPage == InitPage /\ [][NextPage]_vars

SpecGpt == Init /\ [][NextGpt]_vars

SpecGptSequential == Init /\ [][NextGptSequential]_vars

\* every external call settles, and the event loop then runs the continuation
SpecSettling == Spec /\ \A s \in Sessions : WF_vars(Settle(s))

(***************************************************************************)
(* Reading the log                                                         *)
(***************************************************************************)
StageFns ==
  << "downloadVideo", "uploadToSupabase", "extractAudio", "transcribeAudio", "analyzeContent" >>

StageSet == {StageFns[k] : k \in 1..Len(StageFns)}

CleanupPcs == {"cl_video_exists", "cl_video_remove", "cl_audio_exists", "cl_audio_remove"}

\* positions of the log of s that hold an entry op(arg)
At(s, op, arg) == {i \in 1..Len(trace[s]) : trace[s][i].op = op /\ trace[s][i].arg = arg}

\* the calls, returns and failures of the five stages, in order
StageLog(s) ==
  SelectSeq(trace[s], LAMBDA e : e.op \in {"call", "return", "throw"} /\ e.arg \in StageSet)

Terminals(s) == {i \in 1..Len(stream(s)) : stream(s)[i].type \in {"final", "error"}}

ProgressSteps(s) ==
  {stream(s)[i].step : i \in {j \in 1..Len(stream(s)) : stream(s)[j].type = "progress"}}

AllStagesSucceeded(s) == \A k \in 1..Len(StageFns) : At(s, "return", StageFns[k]) # {}

NonEmptyString(v) == v.t = "string" /\ v.s # << >>

(***************************************************************************)
(* Properties                                                              *)
(***************************************************************************)
\* C1: the response carries at most one terminal event at any time and exactly
\* one once the stream is ended, final or error and never both; the terminal
\* event is the last thing written, and nothing is written after res.end().
TerminalEventOnce ==
  \A s \in Sessions :
    /\ Cardinality(Terminals(s)) <= 1
    /\ \A i \in Terminals(s) : i = Len(stream(s))
    /\ ended(s) <=> Cardinality(Terminals(s)) = 1
    /\ pc[s] \in CleanupPcs \cup {"done"} => ended(s)
    /\ \A i, j \in 1..Len(trace[s]) :
         trace[s][i].op = "end" /\ j > i => trace[s][j].op # "write"

WitnessErrorTerminalLast ==
  \E s \in Sessions :
    /\ pc[s] = "done"
    /\ Len(stream(s)) >= 4
    /\ stream(s)[Len(stream(s))].type = "error"

\* C2: once the cleanup of a failed session has finished, the temp directory
\* holds no file that a stage of the session wrote (neither the video named
\* after its videoId nor the audio named after its audioId).
NoTempFileAfterFailedSession ==
  \A s \in Sessions :
    (pc[s] = "done" /\ At(s, "write", "error") # {})
      => \A f \in files : f.stem \notin {videoId[s], audioId[s]}

\* C3: cleanup is called at most once, exactly once in a finished session, and
\* only after the terminal event has been written and the stream ended.
CleanupOnceAfterTerminal ==
  \A s \in Sessions :
    /\ Cardinality(At(s, "call", "cleanup")) <= 1
    /\ pc[s] = "done" => Cardinality(At(s, "call", "cleanup")) = 1
    /\ \A c \in At(s, "call", "cleanup") :
         \E e \in At(s, "end", "") :
           /\ e < c
           /\ \E w \in At(s, "write", "final") \cup At(s, "write", "error") : w < e

WitnessCleanupAfterFinal ==
  \E s \in Sessions :
    /\ pc[s] = "done"
    /\ At(s, "write", "final") # {}
    /\ At(s, "call", "cleanup") # {}

\* C4: with both temp files recorded, a failed deletion of the video is followed
\* by the attempt on the audio and both attempts are made in every finished
\* session; no failure leaves cleanup or analyzeVideo, and nothing is written
\* to the response once cleanup has begun.
CleanupDeletionsIndependent ==
  \A s \in Sessions :
    /\ (videoPath[s] # NULL /\ audioPath[s] # NULL)
         => /\ \A i \in At(s, "remove failed", videoPath[s]) :
                 \E j \in At(s, "call", "transcriber.cleanup") : j > i
            /\ pc[s] = "done"
                 => /\ At(s, "call", "downloader.cleanup") # {}
                    /\ At(s, "call", "transcriber.cleanup") # {}
    /\ \A i \in 1..Len(trace[s]) :
         trace[s][i].op = "throw"
           => trace[s][i].arg \notin {"cleanup", "downloader.cleanup",
                                      "transcriber.cleanup", "analyzeVideo"}
    /\ pc[s] = "done" => trace[s][Len(trace[s])] = Return("analyzeVideo")
    /\ \A c \in At(s, "call", "cleanup") :
         \A j \in 1..Len(trace[s]) : j > c => trace[s][j].op \notin {"write", "end"}

WitnessVideoRemoveFailed ==
  \E s \in Sessions :
    /\ pc[s] = "done"
    /\ audioPath[s] # NULL
    /\ At(s, "remove failed", videoPath[s]) # {}
    /\ At(s, "remove failed", audioPath[s]) # {}

\* C5: the stages are called in the order download, upload, extract,
\* transcribe, analyze; a stage is called only when the one before it has
\* returned, so calls and returns alternate and no two stages are in flight.
StagesSequential ==
  \A s \in Sessions :
    LET L == StageLog(s)
    IN /\ Len(L) <= 2 * Len(StageFns)
       /\ \A i \in 1..Len(L) :
            IF i % 2 = 1
              THEN /\ L[i].op = "call"
                   /\ L[i].arg = StageFns[(i + 1) \div 2]
                   /\ i > 1 => L[i - 1].op = "return"
              ELSE /\ L[i].op \in {"return", "throw"}
                   /\ L[i].arg = StageFns[i \div 2]

WitnessAllStagesCalled ==
  \E s \in Sessions : Len(StageLog(s)) = 2 * Len(StageFns)

\* C6: every stage is called at most once, the stages called are a prefix of
\* the fixed order, and after a stage has failed no stage is called any more.
NoStageAfterFailure ==
  \A s \in Sessions :
    /\ \A k \in 1..Len(StageFns) : Cardinality(At(s, "call", StageFns[k])) <= 1
    /\ \A k \in 2..Len(StageFns) :
         At(s, "call", StageFns[k]) # {} => At(s, "call", StageFns[k - 1]) # {}
    /\ \A i, j \in 1..Len(trace[s]) :
         (trace[s][i].op = "throw" /\ j > i)
           => ~(trace[s][j].op = "call" /\ trace[s][j].arg \in StageSet)

WitnessExtractionFailed ==
  \E s \in Sessions :
    /\ pc[s] = "done"
    /\ At(s, "throw", "extractAudio") # {}

\* C7: a terminal error event comes right after the one progress event with
\* step 'error'; both carry the same payload {sessionId, success: false, error,
\* processingTime, timestamp}, whose error is the message of the failure that
\* aborted the pipeline and whose sessionId is the session's own.
ErrorEventPair ==
  \A s \in Sessions :
    LET st == stream(s)
        errs == {i \in 1..Len(st) : st[i].type = "progress" /\ st[i].step = "error"}
    IN /\ Cardinality(errs) <= 1
       /\ \A i \in errs : i < Len(st) /\ st[i + 1].type = "error"
       /\ \A w \in At(s, "write", "error") :
            /\ w > 2
            /\ trace[s][w - 1].op = "write"
            /\ trace[s][w - 1].ev.type = "progress"
            /\ trace[s][w - 1].ev.step = "error"
            /\ trace[s][w - 1].ev.sessionId = sessionId[s]
            /\ trace[s][w - 1].ev.data = trace[s][w].ev.error
            /\ trace[s][w - 2].op = "throw"
            /\ DOMAIN trace[s][w].ev.error =
                 {"sessionId", "success", "error", "processingTime", "timestamp"}
            /\ trace[s][w].ev.error.sessionId = sessionId[s]
            /\ trace[s][w].ev.error.success = FALSE
            /\ trace[s][w].ev.error.error = trace[s][w - 2].msg
            /\ trace[s][w].ev.error.processingTime =
                 trace[s][w].ev.error.timestamp - startTime[s]

WitnessUploadRejected ==
  \E s \in Sessions :
    \E w \in At(s, "write", "error") :
      trace[s][w].ev.error.error = "Supabase upload failed: Bucket not found"

\* C8: with an empty url no stage is called and no external tool or service
\* is asked for anything; the session ends with the terminal error event and
\* no progress event with a step other than 'error' is written.
EmptyUrlRunsNothing ==
  \A s \in Sessions :
    (pc[s] # "idle" /\ url[s] = "")
      => /\ pc[s] = "done"
         /\ \A i \in 1..Len(trace[s]) :
              /\ trace[s][i].op # "extern"
              /\ ~(trace[s][i].op = "call" /\ trace[s][i].arg \in StageSet)
         /\ ProgressSteps(s) \subseteq {"error"}
         /\ Terminals(s) # {}
         /\ \A i \in Terminals(s) : stream(s)[i].type = "error"

WitnessEmptyUrl ==
  \E s \in Sessions : pc[s] = "done" /\ url[s] = "" /\ Len(stream(s)) = 2

ResultFields ==
  {"sessionId", "success", "processingTime", "videoUrl", "transcript", "analysis", "metadata"}

\* C9: a final event is on the stream exactly when all five stages have
\* returned; it follows the progress event with step 'complete' directly, and
\* the data of that event and the result of the final event are one and the
\* same envelope, built from the session's own values.
FinalIffAllStagesSucceeded ==
  \A s \in Sessions :
    LET st == stream(s)
    IN /\ (\E i \in 1..Len(st) : st[i].type = "final") <=> AllStagesSucceeded(s)
       /\ \A i \in 1..Len(st) :
            st[i].type = "final"
              => /\ i > 1
                 /\ st[i - 1].type = "progress"
                 /\ st[i - 1].step = "complete"
                 /\ st[i - 1].data = st[i].result
                 /\ DOMAIN st[i].result = ResultFields
                 /\ st[i].result.sessionId = sessionId[s]
                 /\ st[i].result.videoUrl = supabaseVideoUrl[s]
                 /\ st[i].result.transcript = transcript[s]
                 /\ st[i].result.analysis = analysis[s]
                 /\ st[i].result.metadata.originalUrl = url[s]
       /\ \A i \in 1..Len(st) :
            (st[i].type = "progress" /\ st[i].step = "complete")
              => i < Len(st) /\ st[i + 1].type = "final"

WitnessFinalAfterComplete ==
  \E s \in Sessions :
    /\ pc[s] = "cl_video_exists"
    /\ AllStagesSucceeded(s)
    /\ stream(s)[Len(stream(s))].type = "final"

\* C10 as claimed: the result of every final event has success true and a
\* non-empty videoUrl, a non-empty transcript, and non-empty hook, cta and usp.
FinalResultAllNonEmpty ==
  \A s \in Sessions :
    \A i \in 1..Len(stream(s)) :
      stream(s)[i].type = "final"
        => /\ stream(s)[i].result.success = TRUE
           /\ stream(s)[i].result.videoUrl \notin {"", NULL}
           /\ stream(s)[i].result.transcript \notin {"", NULL}
           /\ NonEmptyString(stream(s)[i].result.analysis.hook)
           /\ NonEmptyString(stream(s)[i].result.analysis.cta)
           /\ NonEmptyString(stream(s)[i].result.analysis.usp)

\* C10 as amended: the result of every final event has success true, a
\* non-empty videoUrl, non-empty hook, cta and usp, and as transcript the text
\* the speech-to-text API returned, whatever it is (it may be empty).
FinalResultNonEmptyButTranscript ==
  \A s \in Sessions :
    \A i \in 1..Len(stream(s)) :
      stream(s)[i].type = "final"
        => /\ stream(s)[i].result.success = TRUE
           /\ stream(s)[i].result.videoUrl \notin {"", NULL}
           /\ stream(s)[i].result.transcript \in Transcripts
           /\ NonEmptyString(stream(s)[i].result.analysis.hook)
           /\ NonEmptyString(stream(s)[i].result.analysis.cta)
           /\ NonEmptyString(stream(s)[i].result.analysis.usp)

WitnessFinalWithEmptyTranscript ==
  \E s \in Sessions :
    \E i \in 1..Len(stream(s)) :
      stream(s)[i].type = "final" /\ stream(s)[i].result.transcript = ""

\* a string with at least one character that is not white space
Substantive(v) == v.t = "string" /\ \E k \in 1..Len(v.s) : ~IsSpace(v.s[k])

\* the reply is a parseable object whose hook, cta and usp are all substantive
CompleteReply(r) ==
  /\ r.ok
  /\ r.parseable
  /\ \A f \in {"hook", "cta", "usp"} : Substantive(r.obj[f])

\* C11: analyzeContent returns only when the reply parses to an object whose
\* hook, cta and usp are all strings with a non-blank character, and then it
\* returns that object; on every other reply (failed call, unparseable text,
\* a field missing, not a string, empty or blank) it throws and the session
\* holds no analysis at all, whether or not the remote call succeeded.
AnalyzeContentAllOrNothing ==
  \A s \in Sessions :
    /\ At(s, "return", "analyzeContent") # {}
          => CompleteReply(chatReply[s]) /\ analysis[s] = chatReply[s].obj
    /\ At(s, "throw", "analyzeContent") # {}
          => ~CompleteReply(chatReply[s]) /\ analysis[s] = NoAnalysis
    /\ At(s, "call", "analyzeContent") # {} /\ pc[s] # "an_api"
          => At(s, "return", "analyzeContent") # {} \/ At(s, "throw", "analyzeContent") # {}

WitnessBlankFieldRejected ==
  \E s \in Sessions :
    /\ chatReply[s].ok
    /\ chatReply[s].parseable
    /\ chatReply[s].obj.usp = Str(<<" ">>)
    /\ At(s, "throw", "analyzeContent") # {}

\* C12: when the first four stages succeeded and the reply lacks cta, the
\* stream ends with an error event whose message names the invalid analysis
\* output, it carries no complete and no final event, and no analysis is kept.
MissingCtaIsTerminalError ==
  \A s \in Sessions :
    ( /\ chatReply[s].ok
      /\ chatReply[s].parseable
      /\ chatReply[s].obj = [hook |-> GoodField, cta |-> Undefined, usp |-> GoodField]
      /\ \A k \in 1..4 : At(s, "return", StageFns[k]) # {} )
      => /\ ended(s)
         /\ \E i \in 1..Len(stream(s)) :
              /\ stream(s)[i].type = "error"
              /\ stream(s)[i].error.success = FALSE
              /\ stream(s)[i].error.error =
                   "Invalid analysis response: missing or invalid 'cta' field"
              /\ i = Len(stream(s))
         /\ \A i \in 1..Len(stream(s)) :
              /\ stream(s)[i].type # "final"
              /\ stream(s)[i].type = "progress" => stream(s)[i].step # "complete"
         /\ analysis[s] = NoAnalysis
         /\ At(s, "return", "analyzeContent") = {}

WitnessMissingCta ==
  \E s \in Sessions :
    /\ chatReply[s].obj = [hook |-> GoodField, cta |-> Undefined, usp |-> GoodField]
    /\ chatReply[s].parseable
    /\ \A k \in 1..4 : At(s, "return", StageFns[k]) # {}
    /\ pc[s] = "done"

\* C18: once downloadVideo has thrown, extractAudio is never called and no
\* audio file exists in the temp directory, cleanup calls neither service's
\* cleanup and attempts no deletion, and cleanup returns without an error.
DownloadFailureCleansNothing ==
  \A s \in Sessions :
    At(s, "throw", "downloadVideo") # {}
      => /\ At(s, "call", "extractAudio") = {}
         /\ audioId[s] = NoId
         /\ audioPath[s] = NULL
         /\ \A f \in files : f.ext = "wav" => \E o \in Sessions \ {s} : f.stem = audioId[o]
         /\ At(s, "call", "downloader.cleanup") = {}
         /\ At(s, "call", "transcriber.cleanup") = {}
         /\ \A i \in 1..Len(trace[s]) :
              trace[s][i].op \notin {"extern", "removed", "remove failed"}
                \/ At(s, "throw", "downloadVideo") \cap 1..i = {}
         /\ At(s, "call", "cleanup") # {}
         /\ At(s, "return", "cleanup") # {}
         /\ At(s, "throw", "cleanup") = {}
         /\ pc[s] = "done"

WitnessDownloadThrew ==
  \E s \in Sessions :
    /\ At(s, "throw", "downloadVideo") # {}
    /\ At(s, "return", "cleanup") # {}
    /\ \E f \in files : f.stem = videoId[s]

\* the events that reached the client: those written before it went away
delivered(s) ==
  LET open == SelectSeq(trace[s], LAMBDA e : e.op \in {"write", "close"})
      n == IF \E i \in 1..Len(open) : open[i] = Close
             THEN (CHOOSE i \in 1..Len(open) : open[i] = Close) - 1
             ELSE Len(open)
  IN [i \in 1..n |-> open[i].ev]

\* C20: after the client has disconnected the session is not aborted: the only
\* failures are those of the five stages, the stages keep their order, the
\* outcome written is the one the stage results decide, the session goes on
\* to its end, and there cleanup has been called and has returned.
DisconnectDoesNotAbort ==
  \A s \in Sessions :
    /\ [](closed(s) =>
            /\ \A i \in 1..Len(trace[s]) : trace[s][i].op = "throw" => trace[s][i].arg \in StageSet
            /\ \A i \in 1..Len(StageLog(s)) :
                 StageLog(s)[i].op = "call" =>
                   StageLog(s)[i].arg = StageFns[Cardinality({j \in 1..i : StageLog(s)[j].op = "call"})]
            /\ ended(s) =>
                 \/ AllStagesSucceeded(s) /\ \E i \in Terminals(s) : stream(s)[i].type = "final"
                 \/ \E k \in 1..Len(StageFns) :
                      /\ At(s, "throw", StageFns[k]) # {}
                      /\ \E i \in Terminals(s) : stream(s)[i].type = "error"
            /\ pc[s] = "done" => At(s, "call", "cleanup") # {} /\ At(s, "return", "cleanup") # {})
    /\ closed(s) ~> (pc[s] = "done" /\ At(s, "return", "cleanup") # {})

WitnessWriteAfterDisconnect ==
  \E s \in Sessions :
    /\ closed(s)
    /\ pc[s] = "done"
    /\ Len(delivered(s)) < Len(stream(s))
    /\ AllStagesSucceeded(s)

\* C13: once an alternate invocation has settled, returned or failed, the
\* client's temperature is the one it had before that invocation, and the
\* next analyzeContent call sends that temperature, not the override.
AlternateRestoresTemperature ==
  \A i \in 1..Len(gptCalls) :
    gptCalls[i].kind = "alt" /\ gptCalls[i].state # "pending"
      => /\ i = Len(gptCalls) => temperature = gptCalls[i].before
         /\ i < Len(gptCalls) => gptCalls[i + 1].before = gptCalls[i].before
         /\ i < Len(gptCalls) /\ gptCalls[i + 1].kind = "plain"
              => gptCalls[i + 1].sent = gptCalls[i].before

WitnessPlainAfterFailedAlternate ==
  \E i \in 1..Len(gptCalls) :
    /\ gptCalls[i].kind = "alt"
    /\ gptCalls[i].state = "threw"
    /\ gptCalls[i].sent # gptCalls[i].before
    /\ i < Len(gptCalls)
    /\ gptCalls[i + 1].kind = "plain"
    /\ gptCalls[i + 1].sent = gptCalls[i].before

\* C14: also when invocations overlap, every plain analyzeContent call sends
\* the default temperature, and once no invocation is pending the client's
\* temperature is the one it had before any of them started.
OverrideScopedUnderOverlap ==
  /\ \A i \in 1..Len(gptCalls) :
       gptCalls[i].kind = "plain" => gptCalls[i].sent = DefaultTemperature
  /\ pending = {} => temperature = DefaultTemperature

\* C19: when the AI API key, the object-store URL or the object-store key is
\* in neither the process environment nor the .env file, the server never
\* listens and no analyze request is ever accepted, so no session ever runs
\* without one of them.
MissingCredentialPreventsStart ==
  /\ ~(EnvKeys \subseteq env \cup envFile)
       => /\ server # "listening"
          /\ \A s \in Sessions : pc[s] = "idle" /\ trace[s] = << >>
  /\ \A s \in Sessions : pc[s] # "idle" => EnvKeys \subseteq env

WitnessSupabaseKeyMissing ==
  /\ server = "crashed"
  /\ OpenaiConfigured(env)
  /\ "SUPABASE_URL" \in env
  /\ "SUPABASE_SERVICE_ROLE_KEY" \notin env

\* extensions of the files the stages leave in the temp directory
TempExts == Exts \cup {"mp4.part", "wav"}

\* the temp paths named after the identifiers session s has drawn
OwnPaths(s) ==
  {PathOf([stem |-> i, ext |-> e]) : i \in {videoId[s], audioId[s]} \ {NoId}, e \in TempExts}

OwnFiles(fs, s) == {f \in fs : f.stem \in {videoId[s], audioId[s]} \ {NoId}}

\* C15: with two sessions interleaved, the path a download returns is named
\* after the session's own identifier, every deletion a cleanup attempts is
\* of a path of its own session, no path belongs to both sessions, and a step
\* of one session (a failure and a cleanup included) leaves the other
\* session's temp files, events, position and outcome as they were.
SessionsIsolated ==
  /\ [](\A s \in Slots :
          /\ videoPath[s] # NULL
               => videoPath[s] \in {PathOf([stem |-> videoId[s], ext |-> e]) : e \in TempExts}
          /\ \A i \in 1..Len(trace[s]) :
               trace[s][i].op \in {"removed", "remove failed"} => trace[s][i].arg \in OwnPaths(s)
          /\ \A o \in Slots \ {s} : OwnPaths(s) \cap OwnPaths(o) = {})
  /\ [][\A s \in Slots : \A o \in Slots \ {s} :
          (pc'[s] # pc[s] \/ trace'[s] # trace[s])
            => /\ trace'[o] = trace[o]
               /\ pc'[o] = pc[o]
               /\ videoPath'[o] = videoPath[o] /\ audioPath'[o] = audioPath[o]
               /\ OwnFiles(files', o) = OwnFiles(files, o)]_vars

WitnessOneFailsOtherFinishes ==
  \E s \in Slots : \E o \in Slots \ {s} :
    /\ pc[s] = "done" /\ pc[o] = "done"
    /\ At(s, "throw", "extractAudio") # {}
    /\ \E i \in 1..Len(trace[s]) : trace[s][i].op = "removed"
    /\ \E i \in 1..Len(stream(o)) : stream(o)[i].type = "final"
    /\ \E i \in 1..Len(trace[o]) : trace[o][i].op = "removed" /\ trace[o][i].arg = audioPath[o]
    /\ sessionId[s] < sessionId[o] /\ audioId[o] < audioId[s]

\* C16: every progress event of a session and the payload of its terminal
\* event carry the session's sessionId, an assigned sessionId never changes,
\* and two sessions never have the same sessionId.
SessionIdOnEveryEvent ==
  /\ [](\A s \in Slots :
          /\ \A i \in 1..Len(stream(s)) :
               /\ stream(s)[i].type = "progress" => stream(s)[i].sessionId = sessionId[s]
               /\ stream(s)[i].type = "error" => stream(s)[i].error.sessionId = sessionId[s]
               /\ stream(s)[i].type = "final" => stream(s)[i].result.sessionId = sessionId[s]
          /\ trace[s] # << >> => sessionId[s] # NoId
          /\ \A o \in Slots \ {s} : sessionId[s] # NoId => sessionId[s] # sessionId[o])
  /\ [][\A s \in Slots : sessionId[s] # NoId => sessionId'[s] = sessionId[s]]_vars

WitnessTwoSessionsReported ==
  \E s \in Slots : \E o \in Slots \ {s} :
    /\ \E i \in 1..Len(stream(s)) : stream(s)[i].type = "final"
    /\ \E i \in 1..Len(stream(o)) : stream(o)[i].type = "error"
    /\ sessionId[s] # sessionId[o]

\* the stage whose failure ended session s
failedStage(s) == {trace[s][i].arg : i \in {j \in 1..Len(trace[s]) : trace[s][j].op = "throw"}}

\* C17: the terminal error event alone tells the failing stage: two terminal
\* error events that differ in nothing but the sessionId come from failures
\* of the same stage.
ErrorEventIdentifiesStage ==
  \A s \in Slots : \A o \in Slots \ {s} :
    \A i \in 1..Len(stream(s)) : \A j \in 1..Len(stream(o)) :
      ( /\ stream(s)[i].type = "error"
        /\ stream(o)[j].type = "error"
        /\ [stream(s)[i].error EXCEPT !.sessionId = NoId]
             = [stream(o)[j].error EXCEPT !.sessionId = NoId] )
        => failedStage(s) = failedStage(o)

\* C21: provided every pending call settles, a session that has started
\* eventually has written its terminal event, ended the stream and returned
\* from cleanup.
SessionTerminates ==
  \A s \in Sessions :
    (pc[s] # "idle") ~> ( /\ Terminals(s) # {}
                          /\ ended(s)
                          /\ At(s, "return", "cleanup") # {}
                          /\ At(s, "return", "analyzeVideo") # {}
                          /\ pc[s] = "done" )

WitnessTerminatedAfterTranscriptionFailure ==
  \E s \in Sessions :
    /\ At(s, "throw", "transcribeAudio") # {}
    /\ Terminals(s) # {}
    /\ ended(s)
    /\ At(s, "return", "cleanup") # {}
    /\ pc[s] = "done"
    /\ files = {}

\* the positions in the log of the progress events of one step
ProgressAt(s, step) ==
  {i \in 1..Len(trace[s]) :
     /\ trace[s][i].op = "write"
     /\ trace[s][i].ev.type = "progress"
     /\ trace[s][i].ev.step = step}

ProgressStepSet ==
  {"validation", "download", "upload", "extraction", "transcription", "analysis",
   "complete", "error"}

\* C22: a stage is called only after a progress event with its step; a stage
\* that returned has a second event with that step, written after the return
\* and before the start event of the next stage (or the complete event); a
\* stage that has not returned has the start event only; the validation
\* event comes before every stage event; every step is one of the eight.
ProgressBracketsStages ==
  \A s \in Sessions :
    /\ \A k \in 1..Len(StageFns) :
         LET evs == ProgressAt(s, Steps[k])
             calls == At(s, "call", StageFns[k])
             rets == At(s, "return", StageFns[k])
             next == IF k < Len(StageFns) THEN ProgressAt(s, Steps[k + 1])
                                         ELSE ProgressAt(s, "complete")
         IN /\ calls = {} => evs = {}
            /\ calls # {} /\ rets = {} => Cardinality(evs) = 1
            /\ rets # {} => Cardinality(evs) = 2
            /\ \A c \in calls : \E e \in evs : e < c
            /\ \A r \in rets : \E e \in evs : e > r /\ \A n \in next : e < n
            /\ \A e \in evs : \E v \in ProgressAt(s, "validation") : v < e
    /\ Cardinality(ProgressAt(s, "validation")) <= 1
    /\ ProgressSteps(s) \subseteq ProgressStepSet

WitnessFailedStageHasStartEventOnly ==
  \E s \in Sessions :
    /\ At(s, "throw", "extractAudio") # {}
    /\ Cardinality(ProgressAt(s, "extraction")) = 1
    /\ Cardinality(ProgressAt(s, "upload")) = 2
    /\ ProgressAt(s, "error") # {}

\* C23: videoPath is set only once downloadVideo has returned, the published
\* url only once uploadToSupabase has returned, audioPath only once
\* extractAudio has returned; so audioPath set implies the other two set;
\* and a handle that is set keeps its value.
HandlesSetOnlyBySuccess ==
  /\ [](\A s \in Sessions :
          /\ videoPath[s] # NULL => At(s, "return", "downloadVideo") # {}
          /\ supabaseVideoUrl[s] # NULL => At(s, "return", "uploadToSupabase") # {}
          /\ audioPath[s] # NULL => At(s, "return", "extractAudio") # {}
          /\ audioPath[s] # NULL => supabaseVideoUrl[s] # NULL /\ videoPath[s] # NULL
          /\ supabaseVideoUrl[s] # NULL => videoPath[s] # NULL)
  /\ [][\A s \in Sessions :
          /\ videoPath[s] # NULL => videoPath'[s] = videoPath[s]
          /\ supabaseVideoUrl[s] # NULL => supabaseVideoUrl'[s] = supabaseVideoUrl[s]
          /\ audioPath[s] # NULL => audioPath'[s] = audioPath[s]]_vars

WitnessUploadedButNoAudio ==
  \E s \in Sessions :
    /\ videoPath[s] # NULL
    /\ supabaseVideoUrl[s] # NULL
    /\ audioPath[s] = NULL
    /\ At(s, "throw", "extractAudio") # {}
    /\ \E f \in files : f.ext = "wav"

\* the error downloadVideo throws wraps one of these
DownloadErrors == {"yt-dlp exited with code 1", "Downloaded file not found"}

\* C24: downloadVideo throws an error wrapping the underlying message when
\* the downloader exits non-zero, and when it exits zero but the directory
\* holds no file named after this download's identifier; it returns only
\* when such a file exists, and returns the path of one of them.
DownloadFailsOrReturnsOwnFile ==
  /\ [](\A s \in Sessions :
          /\ \A i \in At(s, "throw", "downloadVideo") :
               \E m \in DownloadErrors : trace[s][i].msg = "Failed to download video: " \o m
          /\ At(s, "return", "downloadVideo") # {}
               => videoPath[s] \in {PathOf([stem |-> videoId[s], ext |-> e]) : e \in TempExts})
  /\ [][\A s \in Sessions :
          /\ pc[s] = "dl_exec" /\ pc'[s] # "dl_exec"
               => /\ answer'[s].tool = "yt-dlp"
                  /\ IF answer'[s].ok
                       THEN pc'[s] = "dl_readdir"
                       ELSE /\ trace'[s][Len(trace[s]) + 1] =
                                 Throw("downloadVideo",
                                       "Failed to download video: yt-dlp exited with code 1")
                            /\ videoPath'[s] = NULL
          /\ pc[s] = "dl_readdir" /\ pc'[s] # "dl_readdir"
               => IF downloadedFile(files, videoId[s]) = {}
                    THEN /\ trace'[s][Len(trace[s]) + 1] =
                              Throw("downloadVideo",
                                    "Failed to download video: Downloaded file not found")
                         /\ videoPath'[s] = NULL
                    ELSE /\ \E i \in (Len(trace[s]) + 1)..Len(trace'[s]) :
                              trace'[s][i] = Return("downloadVideo")
                         /\ \E f \in files : f.stem = videoId[s] /\ videoPath'[s] = PathOf(f)]_vars

WitnessExitZeroWithoutFile ==
  \E s \in Sessions :
    /\ \E i \in At(s, "throw", "downloadVideo") :
         trace[s][i].msg = "Failed to download video: Downloaded file not found"
    /\ \E i \in 1..Len(trace[s]) : trace[s][i] = Extern("readdir")

\* C25: the temp video file a session downloads is named after the session's
\* sessionId: the path downloadVideo returns has the sessionId as its stem.
VideoFileNamedAfterSessionId ==
  \A s \in Sessions :
    videoPath[s] # NULL
      => videoPath[s] \in {PathOf([stem |-> sessionId[s], ext |-> e]) : e \in TempExts}

\* C26: for every non-empty url the download is attempted, whatever platform
\* the url is classified as, and when the downloader has left its file the
\* download returns, also for a url classified as Unknown: the
\* classification is logged and decides nothing.
ClassificationDoesNotGate ==
  /\ [](\A s \in Sessions :
          pc[s] # "idle" /\ ~UrlMissing(url[s])
            => /\ At(s, "call", "downloadVideo") # {}
               /\ \E i \in 1..Len(trace[s]) : trace[s][i] = Extern("yt-dlp")
               /\ \A i \in 1..Len(trace[s]) :
                    trace[s][i].op = "log" => trace[s][i].arg = detectPlatform(url[s]))
  /\ [][\A s \in Sessions :
          pc[s] = "dl_readdir" /\ pc'[s] # "dl_readdir" /\ downloadedFile(files, videoId[s]) # {}
            => /\ pc'[s] = "up_read"
               /\ trace'[s][Len(trace[s]) + 1] = LogPlatform(url[s])
               /\ trace'[s][Len(trace[s]) + 2] = Return("downloadVideo")]_vars

WitnessUnknownPlatformDownloaded ==
  \E s \in Sessions :
    /\ detectPlatform(url[s]) = "Unknown"
    /\ ~UrlMissing(url[s])
    /\ At(s, "return", "downloadVideo") # {}
    /\ \E i \in 1..Len(trace[s]) : trace[s][i] = [op |-> "log", arg |-> "Unknown"]

\* C27: extractAudio throws without starting the transcoder when the video
\* file does not exist, throws when the transcoder reports an error, returns
\* the path named after its new identifier only when the transcoder reports
\* the end, and settles exactly once.
ExtractAudioSettlesOnce ==
  /\ [](\A s \in Sessions :
          LET rets == At(s, "return", "extractAudio")
              throws == At(s, "throw", "extractAudio")
          IN /\ Cardinality(rets) + Cardinality(throws) <= Cardinality(At(s, "call", "extractAudio"))
             /\ Cardinality(At(s, "call", "extractAudio")) <= 1
             /\ At(s, "call", "extractAudio") # {} /\ pc[s] \notin {"ex_exists", "ex_ffmpeg"}
                  => Cardinality(rets) + Cardinality(throws) = 1
             /\ rets # {} => /\ audioPath[s] = PathOf([stem |-> audioId[s], ext |-> "wav"])
                              /\ \E i \in 1..Len(trace[s]) : trace[s][i] = Extern("ffmpeg")
             /\ throws # {} => audioPath[s] = NULL)
  /\ [][\A s \in Sessions :
          /\ pc[s] = "ex_exists" /\ pc'[s] # "ex_exists"
               => IF PathExists(files, videoPath[s])
                    THEN /\ pc'[s] = "ex_ffmpeg"
                         /\ audioId'[s] # NoId
                    ELSE /\ trace'[s][Len(trace[s]) + 1] =
                              Throw("extractAudio", "Video file not found: " \o videoPath[s])
                         /\ \A i \in 1..Len(trace'[s]) : trace'[s][i] # Extern("ffmpeg")
                         /\ audioId'[s] = NoId
          /\ pc[s] = "ex_ffmpeg" /\ pc'[s] # "ex_ffmpeg"
               => /\ answer'[s].tool = "ffmpeg"
                  /\ IF answer'[s].ok
                       THEN trace'[s][Len(trace[s]) + 1] = Return("extractAudio")
                       ELSE trace'[s][Len(trace[s]) + 1] =
                              Throw("extractAudio", "ffmpeg exited with code 1")]_vars

WitnessVideoGoneBeforeExtraction ==
  \E s \in Sessions :
    /\ \E i \in At(s, "throw", "extractAudio") :
         trace[s][i].msg = "Video file not found: " \o videoPath[s]
    /\ audioId[s] = NoId
    /\ supabaseVideoUrl[s] # NULL

\* the requests sent to the speech-to-text API for session s
WhisperCalls(s) == {i \in 1..Len(trace[s]) : trace[s][i] = Extern("whisper")}

\* C28: transcribeAudio throws before any request to the speech-to-text API
\* when the audio file does not exist, sends at most one request per
\* invocation, and throws the API's error when that request fails.
TranscribeChecksThenCallsOnce ==
  /\ [](\A s \in Sessions :
          /\ Cardinality(WhisperCalls(s)) <= 1
          /\ Cardinality(At(s, "call", "transcribeAudio")) <= 1
          /\ \A i \in At(s, "throw", "transcribeAudio") :
               trace[s][i].msg # OpenaiError => WhisperCalls(s) = {})
  /\ [][\A s \in Sessions :
          /\ pc[s] = "tr_exists" /\ pc'[s] # "tr_exists"
               => /\ WhisperCalls(s) = {}
                  /\ IF PathExists(files, audioPath[s])
                       THEN pc'[s] = "tr_stat"
                       ELSE /\ trace'[s][Len(trace[s]) + 1] =
                                 Throw("transcribeAudio", "Audio file not found: " \o audioPath[s])
                            /\ \A i \in 1..Len(trace'[s]) : trace'[s][i] # Extern("whisper")
          /\ pc[s] = "tr_api" /\ pc'[s] # "tr_api"
               => /\ answer'[s].tool = "whisper"
                  /\ IF answer'[s].ok
                       THEN trace'[s][Len(trace[s]) + 1] = Return("transcribeAudio")
                       ELSE /\ trace'[s][Len(trace[s]) + 1] = Throw("transcribeAudio", OpenaiError)
                            /\ \E i \in 1..Len(trace'[s]) :
                                 /\ trace'[s][i].op = "write"
                                 /\ trace'[s][i].ev.type = "error"
                                 /\ trace'[s][i].ev.error.error = OpenaiError]_vars

WitnessAudioGoneBeforeTranscription ==
  \E s \in Sessions :
    /\ \E i \in At(s, "throw", "transcribeAudio") :
         trace[s][i].msg = "Audio file not found: " \o audioPath[s]
    /\ audioPath[s] # NULL
    /\ WhisperCalls(s) = {}

\* C29: an upload never replaces an object: when the bucket already holds the
\* derived name the upload throws and the bucket is as before; it throws on
\* every refusal of the store; it returns the public url only when the store
\* accepted the object, which is then in the bucket; and no object of the
\* bucket is ever changed or removed.
UploadNeverOverwrites ==
  /\ [](\A s \in Sessions :
          supabaseVideoUrl[s] # NULL
            => /\ supabaseVideoUrl[s] = getPublicUrl(fileName[s])
               /\ [name |-> fileName[s], body |-> videoPath[s]] \in bucket
               /\ At(s, "return", "uploadToSupabase") # {})
  /\ [][\A s \in Sessions :
          pc[s] = "up_put" /\ pc'[s] # "up_put"
            => /\ answer'[s].tool = "storage.upload"
               /\ ObjectExists(bucket, fileName[s]) => ~answer'[s].ok
               /\ IF answer'[s].ok
                    THEN /\ trace'[s][Len(trace[s]) + 1] = Return("uploadToSupabase")
                         /\ supabaseVideoUrl'[s] = getPublicUrl(fileName[s])
                    ELSE /\ bucket' = bucket
                         /\ supabaseVideoUrl'[s] = NULL
                         /\ trace'[s][Len(trace[s]) + 1].op = "throw"
                         /\ trace'[s][Len(trace[s]) + 1].arg = "uploadToSupabase"
                         /\ trace'[s][Len(trace[s]) + 1].msg \in
                              {"Supabase upload failed: The resource already exists",
                               "Supabase upload failed: Bucket not found"}]_vars
  /\ [][bucket \subseteq bucket']_vars

WitnessNameCollision ==
  \E s \in Sessions :
    /\ \E i \in At(s, "throw", "uploadToSupabase") :
         trace[s][i].msg = "Supabase upload failed: The resource already exists"
    /\ [name |-> fileName[s], body |-> "temp/0.mp4"] \in bucket
    /\ videoPath[s] # "temp/0.mp4"
    /\ supabaseVideoUrl[s] = NULL

\* the promise of the route handler is rejected: nothing handles it, and the
\* process-level handler exits the process
unhandledRejection == \E s \in DOMAIN trace : At(s, "throw", "analyzeVideo") # {}

\* C30: analyzeVideo never throws to the route handler: a failure of
\* validation or of a stage is followed by the terminal error event, a failed
\* deletion is followed by the return of the cleanup that attempted it, the
\* call of a finished session has returned, and so no rejection ever reaches
\* the process-level handler.
AnalyzeVideoNeverThrows ==
  /\ ~unhandledRejection
  /\ \A s \in Sessions :
       /\ \A i \in 1..Len(trace[s]) :
            /\ trace[s][i].op = "throw"
                 => /\ trace[s][i].arg \in StageSet \cup {"validation"}
                    /\ \E j \in (i + 1)..Len(trace[s]) :
                         /\ trace[s][j].op = "write"
                         /\ trace[s][j].ev.type = "error"
                         /\ trace[s][j].ev.error.error = trace[s][i].msg
            /\ trace[s][i].op = "remove failed"
                 => /\ i < Len(trace[s])
                    /\ trace[s][i + 1].op = "return"
                    /\ trace[s][i + 1].arg \in {"downloader.cleanup", "transcriber.cleanup"}
       /\ pc[s] = "done" => trace[s][Len(trace[s])] = Return("analyzeVideo")
       /\ Cardinality(At(s, "return", "analyzeVideo")) <= 1

WitnessStageAndCleanupFailed ==
  \E s \in Sessions :
    /\ At(s, "throw", "analyzeContent") # {}
    /\ \E i \in 1..Len(trace[s]) : trace[s][i] = RemoveFailed(videoPath[s])
    /\ \E i \in 1..Len(trace[s]) : trace[s][i] = RemoveFailed(audioPath[s])
    /\ At(s, "return", "analyzeVideo") # {}

\* C31: the message listener is given the texts the server wrote, each once
\* and in the order written, wherever the chunks of the body are cut.
ReaderDeliversEveryFrame ==
  /\ Len(messages) <= Len(written)
  /\ \A i \in 1..Len(messages) : messages[i] = written[i]
  /\ readerDone => messages = written

\* the stage of s that failed, as a position of the list of stages; 0 for none
FailedAt(s) ==
  IF \E k \in 1..Len(StageFns) : At(s, "throw", StageFns[k]) # {}
    THEN CHOOSE k \in 1..Len(StageFns) : At(s, "throw", StageFns[k]) # {}
    ELSE 0

\* the page has been given every event of the ended response of s
PageCaughtUp(s) == ended(s) /\ handled = Len(stream(s))

\* C32: once the page has handled every event of a session that failed at a
\* stage, it shows no later stage as done, and it shows no loading state.
FailedSessionShowsNoLaterStageDone ==
  \A s \in Sessions :
    (PageCaughtUp(s) /\ FailedAt(s) > 0)
      => /\ \A k \in (FailedAt(s) + 1)..Len(Steps) : stepStatus[Steps[k]] # "done"
         /\ stepStatus["complete"] # "done"
         /\ ~loading

\* C33: once the page has handled the final event, the hook, cta and usp the
\* server validated are what the three lists show, and no list says that
\* nothing was generated.
PageShowsValidatedAnalysis ==
  \A s \in Sessions :
    (resultShown /\ PageCaughtUp(s))
      => /\ hooksList = << Item(analysis[s].hook.s) >>
         /\ ctasList = << Item(analysis[s].cta.s) >>
         /\ uspsList = << Item(analysis[s].usp.s) >>
         /\ hooksList # << Placeholder("No hooks generated") >>
         /\ ctasList # << Placeholder("No CTAs generated") >>
         /\ uspsList # << Placeholder("No USPs generated") >>

====
